---- MODULE Spec2Model ----
(***************************************************************************)
(* A model of the authentication / order-placement core of the e-commerce  *)
(* API: the relational store (products, orders, order_items, users), the   *)
(* Redis cache helper (config/redis.js), the authentication middleware     *)
(* (middleware/auth.js) and the route handlers of routes/auth.js.          *)
(*                                                                         *)
(* Every `await` of a handler is a suspension point, so a handler is one   *)
(* action per awaited store/cache call; the synchronous code that follows  *)
(* the call belongs to the same action.                                    *)
(***************************************************************************)
EXTENDS Integers, Sequences, FiniteSets, TLC

(***************************************************************************)
(* Bounds of the model.                                                    *)
(***************************************************************************)
MaxOrderReqs == 2      \* concurrent POST /products/order requests
MaxLines == 3          \* line items of all order requests together
MaxAuthReqs == 2       \* requests that pass through the authentication middleware
MaxTicks == 1          \* advances of the clock
MaxSignups == 2        \* concurrent POST /signup requests
MaxReads == 2          \* requests to the read-through GET handlers
MaxProfilePuts == 2    \* PUT /user/profile requests
MaxCacheCalls == 4     \* calls a direct caller makes to the cache helper

(***************************************************************************)
(* Program constants.                                                      *)
(***************************************************************************)
UnknownProductId == 999     \* the id the tests use for an absent product
USER_TTL == 3600            \* seconds a user:<id> entry lives
BLACKLIST_TTL == 604800     \* seconds a blacklist:<token> entry lives
PRODUCT_TTL == 600          \* seconds a product:<id> entry lives
PRODUCTS_TTL == 300         \* seconds a products:<page>:<limit>:<category> entry lives
ORDERS_TTL == 300           \* seconds an orders:user:<id>:<page>:<limit> entry lives
DASHBOARD_TTL == 600        \* seconds a dashboard:<id> entry lives
PROFILE_TTL == 1800         \* seconds a profile:<id> entry lives
DefaultPage == 1            \* parseInt(req.query.page) || 1
DefaultLimit == 10          \* parseInt(req.query.limit) || 10
RecentOrdersLimit == 5      \* LIMIT 5 of the dashboard's recent orders
DEFAULT_EXPIRATION == 3600  \* cache.set(key, value, expiration = 3600)

VARIABLES
    products,      \* store: products table, id -> row
    orders,        \* store: orders table, a sequence, id = position (SERIAL)
    order_items,   \* store: order_items table, a sequence of rows
    cache,         \* Redis: key -> [value, expireAt], for the keys present
    now,           \* wall clock, seconds
    ord,           \* POST /products/order: the handler's locals, per request
    ordWrites,     \* history: store rows written by each order request
    users,         \* store: users table, id -> row
    config,        \* the resolved configuration map (getConfig())
    issued,        \* the tokens handed to clients by POST /login
    mw,            \* authMiddleware and the handler behind it, per request
    loggedOut,     \* history: tokens for which POST /logout answered success
    su,            \* POST /signup: the handler's locals, per request
    users_id_seq,  \* store: the sequence behind users.id (SERIAL)
    rq,            \* the Authorization header and the session of a request
    rd,            \* the read-through GET handlers: locals, per request
    pf,            \* PUT /user/profile: the handler's locals, per request
    user_profiles, \* store: user_profiles table, a sequence of rows
    cc,            \* a direct caller of the cache helper: its last two calls
    lg             \* POST /login: the handler's locals, per request

vars == <<products, orders, order_items, cache, now, ord, ordWrites,
          users, config, issued, mw, loggedOut, su, users_id_seq, rq,
          rd, pf, user_profiles, cc, lg>>

storeVars == <<products, orders, order_items>>
orderVars == <<products, orders, order_items, ord, ordWrites>>
authVars == <<users, config, issued, mw, loggedOut>>
signupVars == <<su, users_id_seq>>

\* the variables of the handlers other than order placement, the middleware,
\* login and logout
readVars == <<rd>>
profileVars == <<pf, user_profiles>>
restVars == <<signupVars, rq, readVars, profileVars, cc, lg>>


(***************************************************************************)
(* JavaScript values.  Objects are records; the primitives the handlers    *)
(* pass around are tagged records, so that any two values can be compared. *)
(***************************************************************************)
JsNull == [t |-> "null"]
JsTrue == [t |-> "true"]
JsObject(r) == [t |-> "object", v |-> r]
JsDate(n) == [date |-> n]          \* a Date object
JsString(parts) == [parts |-> parts]   \* a string, as the parts it is made of
EmptyString == JsString(<<>>)
\* the values an `x || y`, `if (x)` treats as true, among null, undefined
\* (both JsNull) and strings
Truthy(v) == v \notin {JsNull, EmptyString}
JsIsoString(n) == [iso |-> n]      \* the ISO-8601 string of a Date
DateFields == {"created_at", "updated_at", "last_login"}

\* JSON.stringify: a Date becomes its ISO string (Date.prototype.toJSON); the
\* text is not reinterpreted as a Date by JSON.parse.
JSONstringify(x) ==
    IF x.t = "object"
    THEN [json |-> JsObject([f \in DOMAIN x.v |->
                     IF f \in DateFields /\ "date" \in DOMAIN x.v[f]
                     THEN JsIsoString(x.v[f].date) ELSE x.v[f]])]
    ELSE [json |-> x]

JSONparse(text) == text.json

(***************************************************************************)
(* config/redis.js: the cache helper.  `up` says whether the transport     *)
(* works for this call; a failing call is caught inside the helper.        *)
(* A key with a TTL is gone once the clock reaches its expiry.             *)
(***************************************************************************)
Key(ns, id) == <<ns, id>>

RedisHas(c, key, t) == key \in DOMAIN c /\ t < c[key].expireAt

\* cache.get: the parsed value, or null on a miss or a transport error
CacheGet(c, key, t, up) ==
    IF up /\ RedisHas(c, key, t) THEN JSONparse(c[key].text) ELSE JsNull

\* cache.set: the cache after setEx(key, expiration, JSON.stringify(value))
CacheSet(c, key, value, expiration, t, up) ==
    IF up
    THEN [k \in (DOMAIN c) \cup {key} |->
            IF k = key
            THEN [text |-> JSONstringify(value), expireAt |-> t + expiration]
            ELSE c[k]]
    ELSE c

\* cache.del leaving the key in place
CacheDelKeeps(c, key, up) == c

\* cache.del: the cache after del(key); a key that is absent is left absent
CacheDel(c, key, up) ==
    IF up THEN [k \in (DOMAIN c) \ {key} |-> c[k]] ELSE c

\* cache.exists: truthy iff the key is present; false on a transport error
CacheExists(c, key, t, up) == up /\ RedisHas(c, key, t)

\* what a helper call hands back to its caller.  The Redis client's call
\* resolves with a value or rejects with an error; the helper's try/catch
\* turns a rejection into the fallback value it returns.
JsFalse == [t |-> "false"]
JsNumber(n) == [num |-> n]
RedisError == [name |-> "Error", message |-> "Redis connection failed"]

ClientReply(up, value) ==
    IF up THEN [ok |-> TRUE, value |-> value]
    ELSE [ok |-> FALSE, error |-> RedisError]

\* try { ... return value } catch (error) { console.error(...); return
\* fallback }, with the error passed on to the caller instead
Rethrow(reply, fallback) ==
    IF reply.ok THEN [returned |-> reply.value] ELSE [raised |-> reply.error]

\* try { ... return value } catch (error) { console.error(...); return
\* fallback }
Catch(reply, fallback) ==
    IF reply.ok THEN [returned |-> reply.value] ELSE [returned |-> fallback]

\* cache.get(key): value ? JSON.parse(value) : null
CacheGetCall(c, key, t, up) ==
    Catch(ClientReply(up, CacheGet(c, key, t, TRUE)), JsNull)

\* cache.set(key, value, expiration): true
CacheSetCall(up) == Catch(ClientReply(up, JsTrue), JsFalse)

\* cache.del(key): true
CacheDelCall(up) == Catch(ClientReply(up, JsTrue), JsFalse)

\* cache.exists(key): the number of keys the client found
CacheExistsCall(c, key, t, up) ==
    Catch(ClientReply(up, JsNumber(IF RedisHas(c, key, t) THEN 1 ELSE 0)),
          JsFalse)

\* a caller that has not called the helper yet
NoCall == [op |-> "none"]
CcIdle == [n |-> 0, prev |-> NoCall, last |-> NoCall]


(***************************************************************************)
(* The store.  Seed rows as in tests/helpers.js seedDatabase; prices are   *)
(* in cents (DECIMAL(10,2)).                                               *)
(***************************************************************************)
ProductIds == {1, 2}
SeedPrice == <<2999, 3999>>
SeedStock == <<1, 1>>        \* the seed's stock, scaled down to the quantities
SeedUserIds == {1, 2}
Quantities == {1, 2}        \* the quantities a caller asks for in a line

OrderReqs == 1 .. MaxOrderReqs

SeedCategory == <<"Electronics", "Books">>

SeedProducts ==
    [p \in ProductIds |->
        [id |-> p, name |-> <<"Test Product", p>>, price |-> SeedPrice[p],
         category |-> JsString(<<SeedCategory[p]>>),
         stock_quantity |-> SeedStock[p]]]

\* SELECT id, name, price, stock_quantity FROM products WHERE id = $1
SelectProduct(tbl, pid) ==
    IF pid \in DOMAIN tbl THEN <<tbl[pid]>> ELSE <<>>

\* UPDATE products SET stock_quantity = stock_quantity - $1 WHERE id = $2
UpdateStock(tbl, qty, pid) ==
    [tbl EXCEPT ![pid].stock_quantity = @ - qty]

RECURSIVE SumTotalPrice(_)
SumTotalPrice(rows) ==
    IF rows = <<>> THEN 0
    ELSE Head(rows).total_price + SumTotalPrice(Tail(rows))

\* SELECT * FROM order_items WHERE order_id = oid, in insertion order
ItemsOfOrder(tbl, oid) ==
    LET Belongs(row) == row.order_id = oid IN SelectSeq(tbl, Belongs)

(***************************************************************************)
(* Users, configuration and tokens.                                        *)
(***************************************************************************)
AuthReqs == 1 .. MaxAuthReqs
ReadReqs == 1 .. MaxReads
ProfileReqs == 1 .. MaxProfilePuts
SignupReqs == 1 .. MaxSignups
AuthUserIds == {1}          \* the users whose clients log in

SeedUsers ==
    [u \in SeedUserIds |->
        [id |-> u, username |-> <<"testuser", u>>, email |-> <<"test", u>>,
         password_hash |-> <<"$2a$12$", u>>, created_at |-> JsDate(0),
         updated_at |-> JsDate(0), last_login |-> JsNull]]

\* a time span in the notation of the `ms` package, and its length in seconds
Span(n, unit) == [n |-> n, unit |-> unit]
SpanSeconds(span) ==
    span.n * (CASE span.unit = "h" -> 3600
                [] span.unit = "d" -> 86400)

\* the values JWT_EXPIRES_IN is given in the environment; JsNull: not set
ExpiresInSettings == {JsNull, Span(7, "d"), Span(30, "d")}

\* JWT_EXPIRES_IN: process.env.JWT_EXPIRES_IN || '7d'
LoadConfig(env) ==
    [JWT_SECRET |-> "JWT_SECRET",
     JWT_EXPIRES_IN |-> IF env = JsNull THEN Span(7, "d") ELSE env]

\* jwt.sign({userId}, secret, {expiresIn}) at time t
JwtSign(userId, secret, expiresIn, t) ==
    [userId |-> userId, iat |-> t, exp |-> t + SpanSeconds(expiresIn),
     key |-> secret]

\* a token that no login issued: signed with another secret
ForgedToken == JwtSign(1, "wrong-secret", Span(1, "h"), 0)

\* jwt.verify(token, secret) at time t: the error it throws, or JsNull
JwtVerifyError(token, secret, t) ==
    IF token.key # secret
    THEN [name |-> "JsonWebTokenError", message |-> "invalid signature"]
    ELSE IF t >= token.exp
    THEN [name |-> "TokenExpiredError", message |-> "jwt expired"]
    ELSE JsNull

\* a rejected store query
StoreError == [name |-> "Error", message |-> "Database connection failed"]

\* SELECT * FROM users WHERE id = $1: the whole row
SelectUserRow(tbl, id) ==
    IF id \in DOMAIN tbl THEN <<tbl[id]>> ELSE <<>>

\* SELECT id, username, email, created_at, updated_at FROM users WHERE id = $1
SelectUserIdentity(tbl, id) ==
    IF id \in DOMAIN tbl
    THEN <<[f \in {"id", "username", "email", "created_at", "updated_at"} |->
              tbl[id][f]]>>
    ELSE <<>>

(***************************************************************************)
(* middleware/auth.js: authMiddleware, followed by the handler behind it   *)
(* (GET /me or POST /logout, routes/auth.js 210-253).                      *)
(***************************************************************************)
MwIdle ==
    [pc |-> "idle", handler |-> "none", token |-> JsNull, userId |-> 0,
     user |-> JsNull, next |-> FALSE, status |-> 0, body |-> JsNull,
     caught |-> JsNull, cacheFailed |-> FALSE, afterLogout |-> FALSE,
     subjectGone |-> FALSE, calls |-> <<>>, revokedAtCheck |-> FALSE]

\* the log of what the middleware did for a request, in order: its calls of
\* the cache ("exists", "get", "set"), of jwt.verify ("verify"), of the
\* store ("query"), of next() ("next") and of res.status(401).json ("401")
Did(m, call) == [m EXCEPT !.calls = Append(@, call)]

\* res.status(401).json({success: false, message})
MwReject(m, msg) ==
    [Did(m, "401") EXCEPT !.pc = "done", !.status = 401,
                          !.body = [success |-> FALSE, message |-> msg]]

\* the catch block with the caught error's text in the response
MwCatchLeaky(m, error) ==
    [Did(m, "401") EXCEPT
        !.pc = "done", !.status = 401, !.caught = error,
        !.body = [success |-> FALSE, message |-> error.message]]

\* the catch block: the error is logged, the response is generic
MwCatch(m, error) ==
    [Did(m, "401") EXCEPT
        !.pc = "done", !.status = 401, !.caught = error,
        !.body = [success |-> FALSE, message |-> "Token is not valid"]]

\* the routes behind the middleware that the model follows; which of them a
\* request is for plays no part in the middleware and is drawn at next()
Handlers == {"me", "logout"}

\* req.user = user; req.token = token; next(): handler h behind the
\* middleware runs up to its first await
MwAdmit(m, user, h) ==
    IF h = "me"
    THEN [Did(m, "next") EXCEPT
             !.user = user, !.next = TRUE, !.pc = "done", !.status = 200,
             !.handler = h,
             !.body = [success |-> TRUE, data |-> [user |-> user]]]
    ELSE [Did(m, "next") EXCEPT
             !.user = user, !.next = TRUE, !.pc = "logout_set", !.handler = h]

\* the middleware's first lines for the credential `token` of the request
\* (JsNull: none): without a credential the request is rejected at once.
\* MwBegin draws the credential itself; MwBeginFromRequest (below) draws the
\* header and the session it is extracted from.  Slots are taken in order.
MwStart(token) ==
    IF token = JsNull
    THEN MwReject(MwIdle, "No token provided, authorization denied")
    ELSE [MwIdle EXCEPT
             !.pc = "exists", !.token = token,
             !.afterLogout = token \in loggedOut,
             !.subjectGone = /\ token \in issued
                             /\ token.userId \notin DOMAIN users]

MwBegin(a) ==
    /\ mw[a].pc = "idle"
    /\ \A b \in AuthReqs : b < a => mw[b].pc # "idle"
    /\ \E token \in issued \cup {ForgedToken, JsNull} :
          mw' = [mw EXCEPT ![a] = MwStart(token)]
    /\ UNCHANGED <<users, config, issued, loggedOut, cache, now, orderVars,
                   restVars>>

\* the revocation check with a transport error of the cache reaching the
\* middleware's catch block
MwAfterExistsThrowing(m, up) ==
    IF ~up
    THEN MwCatch([Did(m, "exists") EXCEPT !.cacheFailed = TRUE],
                 [name |-> "Error", message |-> "Redis connection failed"])
    ELSE IF CacheExists(cache, Key("blacklist", m.token), now, up)
    THEN MwReject(Did(m, "exists"), "Token has been invalidated")
    ELSE LET error == JwtVerifyError(m.token, config.JWT_SECRET, now)
             verified == Did(Did(m, "exists"), "verify")
         IN IF error # JsNull THEN MwCatch(verified, error)
            ELSE [verified EXCEPT !.pc = "get_user",
                                  !.userId = m.token.userId]

\* the code from the answer of cache.exists to the call of cache.get: the
\* blacklist test, then jwt.verify
MwAfterExists(m, up) ==
    LET isBlacklisted == CacheExists(cache, Key("blacklist", m.token), now, up)
        checked == [Did(m, "exists") EXCEPT
                       !.cacheFailed = ~up,
                       !.revokedAtCheck =
                           RedisHas(cache, Key("blacklist", m.token), now)]
    IN IF isBlacklisted
       THEN MwReject(checked, "Token has been invalidated")
       ELSE LET error == JwtVerifyError(m.token, config.JWT_SECRET, now)
                verified == Did(checked, "verify")
            IN IF error # JsNull
               THEN MwCatch(verified, error)
               ELSE [verified EXCEPT !.pc = "get_user",
                                     !.userId = m.token.userId]

\* await cache.exists(`blacklist:${token}`), then jwt.verify
MwCheckBlacklist(a) ==
    /\ mw[a].pc = "exists"
    /\ \E up \in BOOLEAN : mw' = [mw EXCEPT ![a] = MwAfterExists(mw[a], up)]
    /\ UNCHANGED <<users, config, issued, loggedOut, cache, now, orderVars, restVars>>

\* MwGetUser with the cached identity ignored: the store is asked every time
MwGetUserAlwaysQuery(a) ==
    /\ mw[a].pc = "get_user"
    /\ \E up \in BOOLEAN :
          mw' = [mw EXCEPT ![a] =
                    [Did(mw[a], "get") EXCEPT !.cacheFailed = @ \/ ~up,
                                              !.pc = "query_user"]]
    /\ UNCHANGED <<users, config, issued, loggedOut, cache, now, orderVars, restVars>>

\* await cache.get(`user:${decoded.userId}`)
MwGetUser(a) ==
    /\ mw[a].pc = "get_user"
    /\ \E up \in BOOLEAN, h \in Handlers :
          LET user == CacheGet(cache, Key("user", mw[a].userId), now, up)
              m == [Did(mw[a], "get") EXCEPT !.cacheFailed = @ \/ ~up]
          IN IF user # JsNull
             THEN mw' = [mw EXCEPT ![a] = MwAdmit(m, user, h)]
             ELSE mw' = [mw EXCEPT ![a] = [m EXCEPT !.pc = "query_user"]]
    /\ UNCHANGED <<users, config, issued, loggedOut, cache, now, orderVars, restVars>>

\* MwQueryUser with the 'User not found' answer not followed by a return:
\* the middleware goes on with user = result[0], which is undefined
MwQueryUserNoReturn(a) ==
    /\ mw[a].pc = "query_user"
    /\ \E dbUp \in BOOLEAN :
          LET m == Did(mw[a], "query") IN
          IF ~dbUp THEN mw' = [mw EXCEPT ![a] = MwCatch(m, StoreError)]
          ELSE LET result == SelectUserIdentity(users, mw[a].userId) IN
               IF Len(result) = 0
               THEN mw' = [mw EXCEPT ![a] =
                              [MwReject(m, "User not found") EXCEPT
                                  !.pc = "set_user"]]
               ELSE mw' = [mw EXCEPT ![a] =
                              [m EXCEPT !.pc = "set_user",
                                        !.user = JsObject(result[1])]]
    /\ UNCHANGED <<users, config, issued, loggedOut, cache, now, orderVars, restVars>>

\* await query('SELECT ... FROM users WHERE id = $1')
MwQueryUser(a) ==
    /\ mw[a].pc = "query_user"
    /\ \E dbUp \in BOOLEAN :
          LET m == Did(mw[a], "query") IN
          IF ~dbUp THEN mw' = [mw EXCEPT ![a] = MwCatch(m, StoreError)]
          ELSE LET result == SelectUserIdentity(users, mw[a].userId) IN
               IF Len(result) = 0
               THEN mw' = [mw EXCEPT ![a] = MwReject(m, "User not found")]
               ELSE mw' = [mw EXCEPT ![a] =
                              [m EXCEPT !.pc = "set_user",
                                        !.user = JsObject(result[1])]]
    /\ UNCHANGED <<users, config, issued, loggedOut, cache, now, orderVars, restVars>>

\* MwCacheUser with next() throwing into the middleware's catch block: the
\* request is rejected after user:<id> was written
MwCacheUserRejecting(a) ==
    /\ mw[a].pc = "set_user"
    /\ \E up \in BOOLEAN :
          cache' = CacheSet(cache, Key("user", mw[a].userId), mw[a].user,
                            USER_TTL, now, up)
    /\ mw' = [mw EXCEPT ![a] = MwCatch(Did(mw[a], "set"), StoreError)]
    /\ UNCHANGED <<users, config, issued, loggedOut, now, orderVars, restVars>>

\* await cache.set(`user:${decoded.userId}`, user, 3600), then next()
MwCacheUser(a) ==
    /\ mw[a].pc = "set_user"
    /\ \E up \in BOOLEAN :
          cache' = CacheSet(cache, Key("user", mw[a].userId), mw[a].user,
                            USER_TTL, now, up)
    /\ \E h \in Handlers :
          mw' = [mw EXCEPT ![a] = MwAdmit(Did(mw[a], "set"), mw[a].user, h)]
    /\ UNCHANGED <<users, config, issued, loggedOut, now, orderVars, restVars>>

\* POST /logout: await cache.set(`blacklist:${token}`, true, 604800), then
\* the session is destroyed and success is answered
LogoutBlacklist(a) ==
    /\ mw[a].pc = "logout_set"
    /\ \E up \in BOOLEAN :
          cache' = CacheSet(cache, Key("blacklist", mw[a].token), JsTrue,
                            BLACKLIST_TTL, now, up)
    /\ mw' = [mw EXCEPT ![a].pc = "done", ![a].status = 200,
                        ![a].body = [success |-> TRUE,
                                     message |-> "Logout successful"]]
    /\ loggedOut' = loggedOut \cup {mw[a].token}
    /\ UNCHANGED <<users, config, issued, now, orderVars, restVars>>

\* SELECT id, username, email, password_hash, created_at, updated_at FROM
\* users WHERE email = $1 (email is UNIQUE)
SelectUserByEmail(tbl, email) ==
    LET ids == {u \in DOMAIN tbl : tbl[u].email = email}
        row == tbl[CHOOSE u \in ids : TRUE]
    IN IF ids = {} THEN <<>>
       ELSE <<[id |-> row.id, username |-> row.username, email |-> row.email,
               password_hash |-> row.password_hash,
               created_at |-> row.created_at, updated_at |-> row.updated_at]>>

\* UPDATE users SET last_login = CURRENT_TIMESTAMP WHERE id = $1; the
\* update_users_updated_at trigger sets updated_at
UpdateLastLogin(tbl, id, t) ==
    IF id \in DOMAIN tbl
    THEN [tbl EXCEPT ![id].last_login = JsDate(t), ![id].updated_at = JsDate(t)]
    ELSE tbl

\* POST /login (routes/auth.js 115-207) for the e-mail of seed user u, with
\* the right or a wrong password, taken as one step; a user who holds a
\* token does not sign in again
Login(u, passwordOk) ==
    /\ \A token \in issued : token.userId # u
    /\ \E up \in BOOLEAN :
          LET email == SeedUsers[u].email
              cached == CacheGet(cache, Key("user:email", email), now, up)
              result == SelectUserByEmail(users, email)
              user == IF cached # JsNull THEN cached
                      ELSE IF Len(result) = 0 THEN JsNull
                      ELSE JsObject(result[1])
              cached2 == IF cached = JsNull /\ user # JsNull
                         THEN CacheSet(cache, Key("user:email", email), user,
                                       USER_TTL, now, up)
                         ELSE cache
          IN /\ cache' = cached2
             /\ IF user = JsNull \/ ~passwordOk
                THEN UNCHANGED <<users, issued>>
                ELSE /\ issued' = issued \cup
                          {JwtSign(user.v.id, config.JWT_SECRET,
                                   config.JWT_EXPIRES_IN, now)}
                     /\ users' = UpdateLastLogin(users, user.v.id, now)
    /\ UNCHANGED <<config, mw, loggedOut, now, orderVars, restVars>>

\* a user row is removed from the store (DELETE FROM users)
DeleteUser(u) ==
    /\ u \in DOMAIN users
    /\ users' = [x \in (DOMAIN users) \ {u} |-> users[x]]
    /\ UNCHANGED <<config, issued, mw, loggedOut, cache, now, orderVars, restVars>>

\* time passes: a week, the life of a blacklist entry; Redis drops the
\* entries whose time to live (SETEX) is over
Tick ==
    /\ now < MaxTicks * BLACKLIST_TTL
    /\ now' = now + BLACKLIST_TTL
    /\ cache' = [key \in {x \in DOMAIN cache : RedisHas(cache, x, now')} |->
                    cache[key]]
    /\ UNCHANGED <<users, config, issued, mw, loggedOut, orderVars, restVars>>

(***************************************************************************)
(* POST /products/order (routes/auth.js 377-467), after the middleware     *)
(* admitted the request with req.user.id = userId.                         *)
(***************************************************************************)
OrdIdle ==
    [pc |-> "idle", userId |-> 0, nItems |-> 0, orderItems |-> <<>>,
     totalAmount |-> 0, orderId |-> 0, k |-> 0, status |-> 0, message |-> <<>>]

\* the user whose token request slot r carries
UserOf(r) == 1 + ((r - 1) % Cardinality(SeedUserIds))

RECURSIVE LinesUpTo(_, _)
LinesUpTo(o, r) == IF r = 0 THEN 0 ELSE o[r].nItems + LinesUpTo(o, r - 1)

\* line items of the requests received so far
LinesInUse == LinesUpTo(ord, MaxOrderReqs)

\* res.status(code).json({success, message}): the handler returns
OrdRespond(r, code, msg) ==
    ord' = [ord EXCEPT ![r].pc = "done", ![r].status = code, ![r].message = msg]

\* the catch block: any rejected store call ends the request with a 500
OrdCatch(r) ==
    /\ OrdRespond(r, 500, <<"Internal server error">>)
    /\ UNCHANGED <<storeVars, cache, now, ordWrites, authVars, restVars>>

\* POST /signup (routes/auth.js 43-112): the handler's locals
SuIdle ==
    [pc |-> "idle", username |-> JsNull, email |-> JsNull, userId |-> 0,
     token |-> JsNull, userData |-> JsNull, status |-> 0, message |-> JsNull]

\* the read-through GET handlers of routes/auth.js: the handler's locals.
\* `began` is history: the order placements and profile updates that had
\* been answered with success when the request arrived.
RdIdle ==
    [pc |-> "idle", kind |-> "none", arg |-> 0, data |-> JsNull, hit |-> FALSE,
     status |-> 0, body |-> JsNull, began |-> JsNull, calls |-> <<>>,
     failed |-> {}]

\* PUT /user/profile (routes/auth.js 584-638): the handler's locals
PfIdle ==
    [pc |-> "idle", userId |-> 0, fields |-> JsNull, existing |-> 0,
     status |-> 0, message |-> <<>>, calls |-> <<>>, delOk |-> FALSE,
     keyBefore |-> FALSE, keyLeft |-> FALSE, readsDoneBefore |-> {},
     readsIdleAfter |-> {}]

\* POST /login (routes/auth.js 115-207): the handler's locals.  `session` is
\* req.session; `known` is history: whether the store held an account with
\* the e-mail when the request arrived.
LoginReqs == {1, 2}
LgIdle ==
    [pc |-> "idle", email |-> <<>>, password |-> "", user |-> JsNull,
     cacheHit |-> FALSE, session |-> JsNull, status |-> 0, message |-> <<>>,
     token |-> JsNull, known |-> FALSE, lastLoginSet |-> FALSE]

\* the request arrives with a list of n items; an empty or missing list is
\* rejected at once.  Slots are taken in order.
OrderBegin(r) ==
    /\ ord[r].pc = "idle"
    /\ \A q \in OrderReqs : q < r => ord[q].pc # "idle"
    /\ \E n \in 0 .. (MaxLines - LinesInUse) :
          IF n = 0
          THEN ord' = [ord EXCEPT ![r].pc = "done", ![r].userId = UserOf(r),
                                  ![r].status = 400,
                                  ![r].message = <<"Order items are required">>]
          ELSE ord' = [ord EXCEPT ![r].pc = "validate", ![r].userId = UserOf(r),
                                  ![r].nItems = n]
    /\ UNCHANGED <<storeVars, cache, now, ordWrites, authVars, restVars>>

\* OrderValidateItem with the stock decremented as soon as an item passes its
\* check, before the later items are looked at.
OrderValidateItemEager(r) ==
    /\ ord[r].pc = "validate"
    /\ \E pid \in ProductIds \cup {UnknownProductId}, qty \in Quantities :
          LET product == SelectProduct(products, pid) IN
          IF Len(product) = 0
          THEN /\ OrdRespond(r, 400, <<"Product with ID", pid, "not found">>)
               /\ UNCHANGED <<products, ordWrites>>
          ELSE IF product[1].stock_quantity < qty
          THEN /\ OrdRespond(r, 400,
                     <<"Insufficient stock for product", product[1].name>>)
               /\ UNCHANGED <<products, ordWrites>>
          ELSE /\ products' = UpdateStock(products, qty, pid)
               /\ ordWrites' = [ordWrites EXCEPT ![r] = @ + 1]
               /\ ord' = [ord EXCEPT
                      ![r].totalAmount = @ + product[1].price * qty,
                      ![r].orderItems = Append(@,
                          [product_id |-> pid, quantity |-> qty,
                           unit_price |-> product[1].price,
                           total_price |-> product[1].price * qty]),
                      ![r].pc = IF Len(ord[r].orderItems) + 1 = ord[r].nItems
                                THEN "insert_order" ELSE "validate"]
    /\ UNCHANGED <<orders, order_items, cache, now, authVars, restVars>>

\* OrderValidateItem with the product taken from its product:<id> cache
\* entry when there is one, and from the store otherwise
OrderValidateItemCached(r) ==
    /\ ord[r].pc = "validate"
    /\ \E pid \in ProductIds \cup {UnknownProductId}, qty \in Quantities,
          dbUp \in BOOLEAN :
          LET cached == CacheGet(cache, Key("product", pid), now, TRUE) IN
          /\ IF ~dbUp THEN OrdRespond(r, 500, <<"Internal server error">>)
             ELSE LET product == IF cached # JsNull THEN <<cached.v>>
                                 ELSE SelectProduct(products, pid) IN
                  IF Len(product) = 0
                  THEN OrdRespond(r, 400, <<"Product with ID", pid, "not found">>)
                  ELSE LET productData == product[1]
                           itemTotal == productData.price * qty
                       IN IF productData.stock_quantity < qty
                          THEN OrdRespond(r, 400,
                                 <<"Insufficient stock for product", productData.name>>)
                          ELSE ord' = [ord EXCEPT
                                 ![r].totalAmount = @ + itemTotal,
                                 ![r].orderItems = Append(@,
                                     [product_id |-> productData.id,
                                      quantity |-> qty,
                                      unit_price |-> productData.price,
                                      total_price |-> itemTotal]),
                                 ![r].pc = IF Len(ord[r].orderItems) + 1
                                                = ord[r].nItems
                                           THEN "insert_order"
                                           ELSE "validate"]
    /\ UNCHANGED <<storeVars, cache, now, ordWrites, authVars, restVars>>

\* one iteration of the validation loop: the SELECT of the next item's product
\* and the checks on its result.  The item's content is drawn when it is read.
OrderValidateItem(r) ==
    /\ ord[r].pc = "validate"
    /\ \E pid \in ProductIds \cup {UnknownProductId}, qty \in Quantities,
          dbUp \in BOOLEAN :
          /\ IF ~dbUp THEN OrdRespond(r, 500, <<"Internal server error">>)
             ELSE LET product == SelectProduct(products, pid) IN
                  IF Len(product) = 0
                  THEN OrdRespond(r, 400, <<"Product with ID", pid, "not found">>)
                  ELSE LET productData == product[1]
                           itemTotal == productData.price * qty
                       IN IF productData.stock_quantity < qty
                          THEN OrdRespond(r, 400,
                                 <<"Insufficient stock for product", productData.name>>)
                          ELSE ord' = [ord EXCEPT
                                 ![r].totalAmount = @ + itemTotal,
                                 ![r].orderItems = Append(@,
                                     [product_id |-> productData.id,
                                      quantity |-> qty,
                                      unit_price |-> productData.price,
                                      total_price |-> itemTotal]),
                                 ![r].pc = IF Len(ord[r].orderItems) + 1
                                                = ord[r].nItems
                                           THEN "insert_order"
                                           ELSE "validate"]
    /\ UNCHANGED <<storeVars, cache, now, ordWrites, authVars, restVars>>

\* INSERT INTO orders ... RETURNING id
OrderInsertOrder(r) ==
    /\ ord[r].pc = "insert_order"
    /\ \/ OrdCatch(r)
       \/ /\ orders' = Append(orders,
                 [id |-> Len(orders) + 1, user_id |-> ord[r].userId,
                  total_amount |-> ord[r].totalAmount, status |-> "pending"])
          /\ ord' = [ord EXCEPT ![r].orderId = Len(orders) + 1,
                                ![r].k = 1, ![r].pc = "insert_item"]
          /\ ordWrites' = [ordWrites EXCEPT ![r] = @ + 1]
          /\ UNCHANGED <<products, order_items, cache, now, authVars, restVars>>

\* INSERT INTO order_items ... for the k-th validated item
OrderInsertItem(r) ==
    /\ ord[r].pc = "insert_item"
    /\ \/ OrdCatch(r)
       \/ LET item == ord[r].orderItems[ord[r].k] IN
          /\ order_items' = Append(order_items,
                 [order_id |-> ord[r].orderId, product_id |-> item.product_id,
                  quantity |-> item.quantity, unit_price |-> item.unit_price,
                  total_price |-> item.total_price])
          /\ ord' = [ord EXCEPT ![r].pc = "update_stock"]
          /\ ordWrites' = [ordWrites EXCEPT ![r] = @ + 1]
          /\ UNCHANGED <<products, orders, cache, now, authVars, restVars>>

\* UPDATE products SET stock_quantity = stock_quantity - $1 for the k-th item
OrderUpdateStock(r) ==
    /\ ord[r].pc = "update_stock"
    /\ \/ OrdCatch(r)
       \/ LET item == ord[r].orderItems[ord[r].k] IN
          /\ products' = UpdateStock(products, item.quantity, item.product_id)
          /\ ord' = [ord EXCEPT ![r].k = @ + 1,
                                ![r].pc = IF ord[r].k < Len(ord[r].orderItems)
                                          THEN "insert_item" ELSE "del_dashboard"]
          /\ ordWrites' = [ordWrites EXCEPT ![r] = @ + 1]
          /\ UNCHANGED <<orders, order_items, cache, now, authVars, restVars>>

\* await cache.del(`dashboard:${userId}`)
OrderClearDashboard(r) ==
    /\ ord[r].pc = "del_dashboard"
    /\ \E up \in BOOLEAN :
          cache' = CacheDel(cache, Key("dashboard", ord[r].userId), up)
    /\ ord' = [ord EXCEPT ![r].pc = "del_products"]
    /\ UNCHANGED <<storeVars, now, ordWrites, authVars, restVars>>

\* await cache.del('products:*'), then the 201 response
OrderClearProducts(r) ==
    /\ ord[r].pc = "del_products"
    /\ \E up \in BOOLEAN :
          cache' = CacheDel(cache, Key("products", <<"*">>), up)
    /\ OrdRespond(r, 201, <<"Order created successfully">>)
    /\ UNCHANGED <<storeVars, now, ordWrites, authVars, restVars>>

\* the handlers this specification leaves out have no request
InitRest ==
    /\ su = [s \in SignupReqs |-> SuIdle]
    /\ users_id_seq = Cardinality(SeedUserIds)
    /\ rq = [a \in AuthReqs |-> JsNull]
    /\ rd = [q \in ReadReqs |-> RdIdle]
    /\ pf = [w \in ProfileReqs |-> PfIdle]
    /\ user_profiles = <<>>
    /\ cc = CcIdle
    /\ lg = [l \in LoginReqs |-> LgIdle]

InitOrder ==
    /\ products = SeedProducts
    /\ orders = <<>>
    /\ order_items = <<>>
    /\ cache = <<>>
    /\ now = 0
    /\ ord = [r \in OrderReqs |-> OrdIdle]
    /\ ordWrites = [r \in OrderReqs |-> 0]
    /\ users = SeedUsers
    /\ config = LoadConfig(JsNull)
    /\ issued = {}
    /\ mw = [a \in AuthReqs |-> MwIdle]
    /\ loggedOut = {}
    /\ InitRest

\* the quantities a request body can carry: the handler reads item.quantity
\* as sent, and neither the route nor the schema restricts its sign
SentQuantities == Quantities \cup {-1}

\* OrderValidateItem for an item whose quantity is any number a caller sends
OrderValidateSentItem(r) ==
    /\ ord[r].pc = "validate"
    /\ \E pid \in ProductIds \cup {UnknownProductId}, qty \in SentQuantities,
          dbUp \in BOOLEAN :
          /\ IF ~dbUp THEN OrdRespond(r, 500, <<"Internal server error">>)
             ELSE LET product == SelectProduct(products, pid) IN
                  IF Len(product) = 0
                  THEN OrdRespond(r, 400, <<"Product with ID", pid, "not found">>)
                  ELSE LET productData == product[1]
                           itemTotal == productData.price * qty
                       IN IF productData.stock_quantity < qty
                          THEN OrdRespond(r, 400,
                                 <<"Insufficient stock for product", productData.name>>)
                          ELSE ord' = [ord EXCEPT
                                 ![r].totalAmount = @ + itemTotal,
                                 ![r].orderItems = Append(@,
                                     [product_id |-> productData.id,
                                      quantity |-> qty,
                                      unit_price |-> productData.price,
                                      total_price |-> itemTotal]),
                                 ![r].pc = IF Len(ord[r].orderItems) + 1
                                                = ord[r].nItems
                                           THEN "insert_order"
                                           ELSE "validate"]
    /\ UNCHANGED <<storeVars, cache, now, ordWrites, authVars, restVars>>

NextOrder ==
    \E r \in OrderReqs :
        \/ OrderBegin(r)
        \/ OrderValidateItem(r)
        \/ OrderInsertOrder(r)
        \/ OrderInsertItem(r)
        \/ OrderUpdateStock(r)
        \/ OrderClearDashboard(r)
        \/ OrderClearProducts(r)

SpecOrder == InitOrder /\ [][NextOrder]_vars

\* order placement with items of any quantity
NextStock ==
    \E r \in OrderReqs :
        \/ OrderBegin(r)
        \/ OrderValidateSentItem(r)
        \/ OrderInsertOrder(r)
        \/ OrderInsertItem(r)
        \/ OrderUpdateStock(r)
        \/ OrderClearDashboard(r)
        \/ OrderClearProducts(r)

SpecStock == InitOrder /\ [][NextStock]_vars


(***************************************************************************)
(* The requests that pass through the middleware, with logins, removals    *)
(* of users and the passing of time.                                       *)
(***************************************************************************)
InitAuth ==
    /\ products = SeedProducts
    /\ orders = <<>>
    /\ order_items = <<>>
    /\ cache = <<>>
    /\ now = 0
    /\ ord = [r \in OrderReqs |-> OrdIdle]
    /\ ordWrites = [r \in OrderReqs |-> 0]
    /\ users = SeedUsers
    /\ \E env \in ExpiresInSettings : config = LoadConfig(env)
    /\ issued = {}
    /\ mw = [a \in AuthReqs |-> MwIdle]
    /\ loggedOut = {}
    /\ InitRest

NextAuth ==
    \/ \E u \in AuthUserIds, passwordOk \in BOOLEAN : Login(u, passwordOk)
    \/ \E u \in AuthUserIds : DeleteUser(u)
    \/ Tick
    \/ \E a \in AuthReqs :
          \/ MwBegin(a)
          \/ MwCheckBlacklist(a)
          \/ MwGetUser(a)
          \/ MwQueryUser(a)
          \/ MwCacheUser(a)
          \/ LogoutBlacklist(a)

SpecAuth == InitAuth /\ [][NextAuth]_vars

\* the same requests with JWT_EXPIRES_IN left unset in the environment
InitAuthDefaults ==
    /\ InitAuth
    /\ config = LoadConfig(JsNull)

SpecAuthDefaults == InitAuthDefaults /\ [][NextAuth]_vars

(***************************************************************************)
(* POST /signup (routes/auth.js 43-112), with a request that presents the  *)
(* token of the new account to the middleware.                             *)
(***************************************************************************)
\* the usernames and e-mails a signup asks for: those of seed user 1, and
\* new ones
SignupUsernames == {SeedUsers[1].username, <<"newuser", 1>>}
SignupEmails == {SeedUsers[1].email, <<"new", 1>>}

\* SELECT id FROM users WHERE email = $1 OR username = $2
SelectExistingUser(tbl, email, username) ==
    {u \in DOMAIN tbl : tbl[u].email = email \/ tbl[u].username = username}

\* INSERT INTO users (username, email, password_hash) VALUES ($1, $2, $3):
\* the table with the new row, whose id comes from the sequence and whose
\* timestamps are the column defaults
InsertUser(tbl, id, username, email, hash, t) ==
    [u \in (DOMAIN tbl) \cup {id} |->
        IF u = id
        THEN [id |-> id, username |-> username, email |-> email,
              password_hash |-> hash, created_at |-> JsDate(t),
              updated_at |-> JsDate(t), last_login |-> JsNull]
        ELSE tbl[u]]

\* res.status(code).json({success, message, ...}): the handler returns
SuRespond(s, code, msg) ==
    su' = [su EXCEPT ![s].pc = "done", ![s].status = code, ![s].message = msg]

\* the request arrives with a valid body.  Slots are taken in order.
SignupBegin(s) ==
    /\ su[s].pc = "idle"
    /\ \A q \in SignupReqs : q < s => su[q].pc # "idle"
    /\ \E username \in SignupUsernames, email \in SignupEmails :
          su' = [su EXCEPT ![s].pc = "check", ![s].username = username,
                           ![s].email = email]
    /\ UNCHANGED <<users_id_seq, cache, now, authVars, orderVars, rq,
                   readVars, profileVars, cc, lg>>

\* await query('SELECT id FROM users WHERE email = $1 OR username = $2'),
\* then await bcrypt.hash(password, 12)
SignupCheckExisting(s) ==
    /\ su[s].pc = "check"
    /\ \E dbUp \in BOOLEAN :
          IF ~dbUp THEN SuRespond(s, 500, "Internal server error")
          ELSE IF SelectExistingUser(users, su[s].email, su[s].username) # {}
          THEN SuRespond(s, 409,
                         "User with this email or username already exists")
          ELSE su' = [su EXCEPT ![s].pc = "insert"]
    /\ UNCHANGED <<users_id_seq, cache, now, authVars, orderVars, rq,
                   readVars, profileVars, cc, lg>>

\* await query('INSERT INTO users ... RETURNING id'): the sequence advances
\* also when the row violates UNIQUE (username) or UNIQUE (email) and the
\* query rejects; then jwt.sign and the session
SignupInsert(s) ==
    /\ su[s].pc = "insert"
    /\ \E dbUp \in BOOLEAN :
          IF ~dbUp
          THEN /\ SuRespond(s, 500, "Internal server error")
               /\ UNCHANGED <<users, users_id_seq>>
          ELSE /\ users_id_seq' = users_id_seq + 1
               /\ IF SelectExistingUser(users, su[s].email, su[s].username)
                        # {}
                  THEN /\ SuRespond(s, 500, "Internal server error")
                       /\ UNCHANGED users
                  ELSE /\ users' = InsertUser(users, users_id_seq', su[s].username,
                                              su[s].email, <<"$2a$12$", "new">>,
                                              now)
                       /\ su' = [su EXCEPT
                                   ![s].pc = "cache",
                                   ![s].userId = users_id_seq',
                                   ![s].token =
                                       JwtSign(users_id_seq', config.JWT_SECRET,
                                               config.JWT_EXPIRES_IN, now)]
    /\ UNCHANGED <<cache, now, config, issued, mw, loggedOut, orderVars, rq,
                   readVars, profileVars, cc, lg>>

\* const userData = {id, username, email, created_at: new Date()};
\* await cache.set(`user:${userId}`, userData, 3600); then the 201 with the
\* user and the token
SignupCacheUser(s) ==
    /\ su[s].pc = "cache"
    /\ LET userData == JsObject([id |-> su[s].userId,
                                 username |-> su[s].username,
                                 email |-> su[s].email,
                                 created_at |-> JsDate(now)])
       IN /\ \E up \in BOOLEAN :
                cache' = CacheSet(cache, Key("user", su[s].userId), userData,
                                  USER_TTL, now, up)
          /\ su' = [su EXCEPT ![s].pc = "done", ![s].status = 201,
                              ![s].message = "User created successfully",
                              ![s].userData = userData]
    /\ issued' = issued \cup {su[s].token}
    /\ UNCHANGED <<users_id_seq, now, users, config, mw, loggedOut, orderVars,
                   rq, readVars, profileVars, cc, lg>>

\* the middleware request of the specifications that follow a single one
OneAuthReq == {1}

InitSignup ==
    /\ products = SeedProducts
    /\ orders = <<>>
    /\ order_items = <<>>
    /\ cache = <<>>
    /\ now = 0
    /\ ord = [r \in OrderReqs |-> OrdIdle]
    /\ ordWrites = [r \in OrderReqs |-> 0]
    /\ users = SeedUsers
    /\ config = LoadConfig(JsNull)
    /\ issued = {}
    /\ mw = [a \in AuthReqs |-> MwIdle]
    /\ loggedOut = {}
    /\ InitRest

NextSignup ==
    \/ \E s \in SignupReqs :
          \/ SignupBegin(s)
          \/ SignupCheckExisting(s)
          \/ SignupInsert(s)
          \/ SignupCacheUser(s)
    \/ \E a \in OneAuthReq :
          \/ MwBegin(a)
          \/ MwCheckBlacklist(a)
          \/ MwGetUser(a)
          \/ MwQueryUser(a)
          \/ MwCacheUser(a)
          \/ LogoutBlacklist(a)

SpecSignup == InitSignup /\ [][NextSignup]_vars

(***************************************************************************)
(* The credential of a request (middleware/auth.js line 8):                *)
(*   req.header('Authorization')?.replace('Bearer ', '') || req.session.token *)
(* A string is a record [parts |-> <<...>>] whose parts are the pieces the *)
(* code tells apart: the text 'Bearer ' and the text of a token.           *)
(***************************************************************************)
BearerPrefix == [str |-> "Bearer "]

\* String.prototype.replace(pattern, '') with a string pattern: the first
\* occurrence is removed, any later one stays
StringReplace(str, pattern) ==
    LET at == {i \in 1 .. Len(str.parts) : str.parts[i] = pattern}
    IN IF at = {} THEN str
       ELSE LET i == CHOOSE j \in at : \A k \in at : j <= k
            IN JsString(SubSeq(str.parts, 1, i - 1) \o
                        SubSeq(str.parts, i + 1, Len(str.parts)))

\* the token that a string is to jwt.verify and to the blacklist: the text of
\* a token is that token, any other text is a string that nobody signed
TokenOfString(str) ==
    IF Len(str.parts) = 1 /\ str.parts[1] # BearerPrefix
    THEN str.parts[1]
    ELSE [userId |-> 0, iat |-> 0, exp |-> 0, key |-> "unsigned",
          text |-> str.parts]

\* the mutation of ExtractToken that prefers the session's token
ExtractTokenSessionFirst(header, sessionToken) ==
    IF sessionToken # JsNull THEN sessionToken
    ELSE IF header = JsNull THEN JsNull
    ELSE LET stripped == StringReplace(header, BearerPrefix)
         IN IF stripped.parts # <<>> THEN TokenOfString(stripped) ELSE JsNull

\* header?.replace('Bearer ', '') || session.token; JsNull stands for
\* undefined, and the empty string is falsy
ExtractToken(header, sessionToken) ==
    LET stripped == IF header = JsNull THEN JsNull
                    ELSE StringReplace(header, BearerPrefix)
    IN IF stripped # JsNull /\ stripped.parts # <<>>
       THEN TokenOfString(stripped)
       ELSE sessionToken

\* the tokens a client may hold, and the Authorization headers it may send:
\* none, an empty one, the prefix alone, a bare token, the prefix with a
\* token, and a doubled prefix
ClientTokens == issued \cup {ForgedToken}
Headers ==
    {JsNull, JsString(<<>>), JsString(<<BearerPrefix>>)}
    \cup {JsString(<<t>>) : t \in ClientTokens}
    \cup {JsString(<<BearerPrefix, t>>) : t \in ClientTokens}
    \cup {JsString(<<BearerPrefix, BearerPrefix, t>>) : t \in ClientTokens}

\* the request arrives with a header and a session
MwBeginFromRequest(a) ==
    /\ mw[a].pc = "idle"
    /\ \A b \in AuthReqs : b < a => mw[b].pc # "idle"
    /\ \E header \in Headers, sessionToken \in ClientTokens \cup {JsNull} :
          /\ rq' = [rq EXCEPT ![a] = [header |-> header,
                                      session |-> [token |-> sessionToken]]]
          /\ mw' = [mw EXCEPT ![a] =
                       MwStart(ExtractToken(header, sessionToken))]
    /\ UNCHANGED <<users, config, issued, loggedOut, cache, now, orderVars,
                   signupVars, readVars, profileVars, cc, lg>>

InitCredential ==
    /\ products = SeedProducts
    /\ orders = <<>>
    /\ order_items = <<>>
    /\ cache = <<>>
    /\ now = 0
    /\ ord = [r \in OrderReqs |-> OrdIdle]
    /\ ordWrites = [r \in OrderReqs |-> 0]
    /\ users = SeedUsers
    /\ config = LoadConfig(JsNull)
    /\ issued = {}
    /\ mw = [a \in AuthReqs |-> MwIdle]
    /\ loggedOut = {}
    /\ InitRest

NextCredential ==
    \/ \E u \in AuthUserIds, passwordOk \in BOOLEAN : Login(u, passwordOk)
    \/ \E a \in OneAuthReq :
          \/ MwBeginFromRequest(a)
          \/ MwCheckBlacklist(a)
          \/ MwGetUser(a)
          \/ MwQueryUser(a)
          \/ MwCacheUser(a)
          \/ LogoutBlacklist(a)

SpecCredential == InitCredential /\ [][NextCredential]_vars

(***************************************************************************)
(* The read-through GET handlers of routes/auth.js: GET /products/:id      *)
(* (329-374), GET /products (265-326), GET /products/orders/my (470-526),  *)
(* GET /user/dashboard (641-690) and GET /user/profile (539-581).  Each    *)
(* asks the cache, on a miss queries the store, writes the result to the   *)
(* cache and answers it.  The handlers behind the middleware are followed  *)
(* from the point where req.user.id is known.                              *)
(***************************************************************************)
\* the cache key of a read: kind and argument (product id; page, limit and
\* category; user id, page and limit; user id).  The parts that the template
\* string joins with ':' are the elements of a tuple: page, limit and the
\* ids are integers and the category comes last, so that two keys are the
\* same string exactly when their tuples are equal.
ReadKey(kind, arg) ==
    CASE kind = "product" -> Key("product", arg)
      [] kind = "products" ->
            Key("products",
                <<arg[1], arg[2],
                  IF Truthy(arg[3]) THEN arg[3] ELSE JsString(<<"all">>)>>)
      [] kind = "orders" -> Key("orders:user", arg)
      [] kind = "dashboard" -> Key("dashboard", arg)
      [] kind = "profile" -> Key("profile", arg)

ReadTTL(kind) ==
    CASE kind = "product" -> PRODUCT_TTL
      [] kind = "products" -> PRODUCTS_TTL
      [] kind = "orders" -> ORDERS_TTL
      [] kind = "dashboard" -> DASHBOARD_TTL
      [] kind = "profile" -> PROFILE_TTL

\* the arguments the model's clients send: the seed products, the first page
\* with the default limit, and the user who places the orders
ReadArgs(kind) ==
    CASE kind = "product" -> ProductIds \cup {UnknownProductId}
      [] kind = "products" -> {<<DefaultPage, DefaultLimit, JsNull>>}
      [] kind = "orders" -> {<<UserOf(1), DefaultPage, DefaultLimit>>}
      [] kind = "dashboard" -> {UserOf(1)}
      [] kind = "profile" -> {UserOf(1)}

\* LIMIT limit OFFSET offset
LimitOffset(rows, limit, offset) ==
    SubSeq(rows, offset + 1,
           IF offset + limit < Len(rows) THEN offset + limit ELSE Len(rows))

\* pagination: {page, limit, total, pages: Math.ceil(total / limit)}
Pagination(page, limit, total) ==
    [page |-> page, limit |-> limit, total |-> total,
     pages |-> (total + limit - 1) \div limit]

\* SELECT ... FROM products [WHERE category = $1] ORDER BY created_at DESC:
\* the seed rows share their created_at, the rows come in the order of
\* their ids
SelectProducts(tbl, category) ==
    LET InCategory(row) == Truthy(category) => row.category = category
    IN SelectSeq([i \in 1 .. Cardinality(DOMAIN tbl) |-> tbl[i]], InCategory)

\* SELECT o.id, o.total_amount, o.status, COUNT(oi.id) as item_count FROM
\* orders o LEFT JOIN order_items oi ... WHERE o.user_id = $1 GROUP BY o.id
\* ORDER BY o.created_at DESC: the rows 1 .. i of the user, newest first
RECURSIVE SelectOrdersOfUser(_, _, _, _)
SelectOrdersOfUser(tblOrders, tblItems, userId, i) ==
    IF i = 0 THEN <<>>
    ELSE (IF tblOrders[i].user_id = userId
          THEN <<[id |-> tblOrders[i].id,
                  total_amount |-> tblOrders[i].total_amount,
                  status |-> tblOrders[i].status,
                  item_count |-> Len(ItemsOfOrder(tblItems, tblOrders[i].id))]>>
          ELSE <<>>)
         \o SelectOrdersOfUser(tblOrders, tblItems, userId, i - 1)

\* COALESCE(SUM(o.total_amount), 0)
RECURSIVE SumTotalAmount(_)
SumTotalAmount(rows) ==
    IF rows = <<>> THEN 0
    ELSE Head(rows).total_amount + SumTotalAmount(Tail(rows))

\* SELECT u.id, ..., p.first_name, ... FROM users u LEFT JOIN user_profiles p
\* ON u.id = p.user_id WHERE u.id = $1: one row per profile row of the user,
\* or one row with NULLs when the user has none
SelectProfile(tblUsers, tblProfiles, userId) ==
    LET OfUser(row) == row.user_id = userId
        profiles == SelectSeq(tblProfiles, OfUser)
        Joined(prof) ==
            [id |-> tblUsers[userId].id,
             username |-> tblUsers[userId].username,
             email |-> tblUsers[userId].email,
             created_at |-> tblUsers[userId].created_at,
             updated_at |-> tblUsers[userId].updated_at,
             last_login |-> tblUsers[userId].last_login,
             first_name |-> prof.first_name, last_name |-> prof.last_name,
             phone |-> prof.phone, bio |-> prof.bio]
    IN IF userId \notin DOMAIN tblUsers THEN <<>>
       ELSE IF profiles = <<>>
       THEN <<Joined([first_name |-> JsNull, last_name |-> JsNull,
                      phone |-> JsNull, bio |-> JsNull])>>
       ELSE [i \in 1 .. Len(profiles) |-> Joined(profiles[i])]

\* the store queries of a read: the value the handler caches and answers, or
\* JsNull when the entity is not in the store (404)
ReadStore(kind, arg) ==
    CASE kind = "product" ->
            LET result == SelectProduct(products, arg)
            IN IF Len(result) = 0 THEN JsNull ELSE JsObject(result[1])
      [] kind = "products" ->
            LET rows == SelectProducts(products, arg[3])
            IN JsObject([products |->
                            LimitOffset(rows, arg[2], (arg[1] - 1) * arg[2]),
                         pagination |->
                            Pagination(arg[1], arg[2], Len(rows))])
      [] kind = "orders" ->
            LET rows == SelectOrdersOfUser(orders, order_items, arg[1],
                                           Len(orders))
            IN JsObject([orders |->
                            LimitOffset(rows, arg[3], (arg[2] - 1) * arg[3]),
                         pagination |->
                            Pagination(arg[2], arg[3], Len(rows))])
      [] kind = "dashboard" ->
            LET rows == SelectOrdersOfUser(orders, order_items, arg,
                                           Len(orders))
            IN JsObject([stats |-> [total_orders |-> Len(rows),
                                    total_spent |-> SumTotalAmount(rows)],
                         recent_orders |->
                            LimitOffset(rows, RecentOrdersLimit, 0)])
      [] kind = "profile" ->
            LET result == SelectProfile(users, user_profiles, arg)
            IN IF Len(result) = 0 THEN JsNull ELSE JsObject(result[1])

\* the log of a read: its calls of the cache ("get", "set") and of the
\* store ("query"), in order, and those of them that failed
Called(r, call, ok) ==
    [r EXCEPT !.calls = Append(@, call),
              !.failed = IF ok THEN @ ELSE @ \cup {call}]

\* res.json({success: true, data}): what the client reads is the JSON text
RdRespond(r, data, hit) ==
    [r EXCEPT !.pc = "done", !.status = 200, !.hit = hit, !.data = data,
              !.body = JSONparse(JSONstringify(data))]

\* the locals of a request of the given kind and argument that has just
\* arrived
RdArrived(kind, arg) ==
    [RdIdle EXCEPT
        !.pc = "get", !.kind = kind, !.arg = arg,
        !.began = [orders |-> {r \in OrderReqs : ord[r].status = 201},
                   puts |-> {w \in ProfileReqs : pf[w].status = 200}]]

\* a request of one of the given kinds arrives.  Slots are taken in order.
ReadBegin(q, kinds) ==
    /\ rd[q].pc = "idle"
    /\ \A o \in ReadReqs : o < q => rd[o].pc # "idle"
    /\ \E kind \in kinds :
          \E arg \in ReadArgs(kind) :
             rd' = [rd EXCEPT ![q] = RdArrived(kind, arg)]
    /\ UNCHANGED <<cache, now, orderVars, authVars, signupVars, rq,
                   profileVars, cc, lg>>

\* the list queries a client may send: page and limit (parseInt(...) || 1,
\* parseInt(...) || 10), and for the product list the category filter
\* (none, the empty string, a category of the seed, the text 'all'), for the
\* order history the user
ListPages == {DefaultPage, DefaultPage + 1}
ListLimits == {DefaultLimit, 2 * DefaultLimit}
ListCategories ==
    {JsNull, EmptyString, JsString(<<"all">>), JsString(<<SeedCategory[1]>>)}
ListQueries(kind) ==
    IF kind = "products"
    THEN {<<page, limit, category>> :
            page \in ListPages, limit \in ListLimits,
            category \in ListCategories}
    ELSE {<<userId, page, limit>> :
            userId \in SeedUserIds, page \in ListPages, limit \in ListLimits}

\* GET /products or GET /products/orders/my arrives with one of these queries
ListBegin(q) ==
    /\ rd[q].pc = "idle"
    /\ \A o \in ReadReqs : o < q => rd[o].pc # "idle"
    /\ \E kind \in {"products", "orders"} :
          \E arg \in ListQueries(kind) :
             rd' = [rd EXCEPT ![q] = RdArrived(kind, arg)]
    /\ UNCHANGED <<cache, now, orderVars, authVars, signupVars, rq,
                   profileVars, cc, lg>>

\* ReadCacheGet with a failed cache.get answered as if the entity did not
\* exist
ReadCacheGetAbsent(q) ==
    /\ rd[q].pc = "get"
    /\ \E up \in BOOLEAN :
          LET cached == CacheGet(cache, ReadKey(rd[q].kind, rd[q].arg), now, up)
              r == Called(rd[q], "get", up)
          IN IF ~up
             THEN rd' = [rd EXCEPT ![q] = [r EXCEPT !.pc = "done",
                                                    !.status = 404]]
             ELSE IF cached # JsNull
             THEN rd' = [rd EXCEPT ![q] = RdRespond(r, cached, TRUE)]
             ELSE rd' = [rd EXCEPT ![q] = [r EXCEPT !.pc = "query"]]
    /\ UNCHANGED <<cache, now, orderVars, authVars, signupVars, rq,
                   profileVars, cc, lg>>

\* await cache.get(key): a hit is answered at once
ReadCacheGet(q) ==
    /\ rd[q].pc = "get"
    /\ \E up \in BOOLEAN :
          LET cached == CacheGet(cache, ReadKey(rd[q].kind, rd[q].arg), now, up)
              r == Called(rd[q], "get", up)
          IN IF cached # JsNull
             THEN rd' = [rd EXCEPT ![q] = RdRespond(r, cached, TRUE)]
             ELSE rd' = [rd EXCEPT ![q] = [r EXCEPT !.pc = "query"]]
    /\ UNCHANGED <<cache, now, orderVars, authVars, signupVars, rq,
                   profileVars, cc, lg>>

\* await query(...): a rejected query is a 500, an absent entity a 404
ReadQueryStore(q) ==
    /\ rd[q].pc = "query"
    /\ \E dbUp \in BOOLEAN :
          LET data == ReadStore(rd[q].kind, rd[q].arg)
              r == Called(rd[q], "query", dbUp)
          IN IF ~dbUp
             THEN rd' = [rd EXCEPT ![q] = [r EXCEPT !.pc = "done",
                                                    !.status = 500]]
             ELSE IF data = JsNull
             THEN rd' = [rd EXCEPT ![q] = [r EXCEPT !.pc = "done",
                                                    !.status = 404]]
             ELSE rd' = [rd EXCEPT ![q] = [r EXCEPT !.pc = "set",
                                                    !.data = data]]
    /\ UNCHANGED <<cache, now, orderVars, authVars, signupVars, rq,
                   profileVars, cc, lg>>

\* await cache.set(key, data, ttl), then the answer
ReadCacheSet(q) ==
    /\ rd[q].pc = "set"
    /\ \E up \in BOOLEAN :
          /\ cache' = CacheSet(cache, ReadKey(rd[q].kind, rd[q].arg),
                               rd[q].data, ReadTTL(rd[q].kind), now, up)
          /\ rd' = [rd EXCEPT ![q] = RdRespond(Called(rd[q], "set", up),
                                               rd[q].data, FALSE)]
    /\ UNCHANGED <<now, orderVars, authVars, signupVars, rq, profileVars, cc, lg>>

\* the reads that an order placement touches, and the one order request of
\* the specification that follows them
OrderReadKinds == {"product", "products", "orders", "dashboard"}
OneOrderReq == {1}
TwoReadReqs == {1, 2}

InitReads ==
    /\ products = SeedProducts
    /\ orders = <<>>
    /\ order_items = <<>>
    /\ cache = <<>>
    /\ now = 0
    /\ ord = [r \in OrderReqs |-> OrdIdle]
    /\ ordWrites = [r \in OrderReqs |-> 0]
    /\ users = SeedUsers
    /\ config = LoadConfig(JsNull)
    /\ issued = {}
    /\ mw = [a \in AuthReqs |-> MwIdle]
    /\ loggedOut = {}
    /\ InitRest

NextReads ==
    \/ \E r \in OneOrderReq :
          \/ OrderBegin(r)
          \/ OrderValidateItem(r)
          \/ OrderInsertOrder(r)
          \/ OrderInsertItem(r)
          \/ OrderUpdateStock(r)
          \/ OrderClearDashboard(r)
          \/ OrderClearProducts(r)
    \/ \E q \in ReadReqs :
          \/ ReadBegin(q, OrderReadKinds)
          \/ ReadCacheGet(q)
          \/ ReadQueryStore(q)
          \/ ReadCacheSet(q)

SpecReads == InitReads /\ [][NextReads]_vars

\* the store after user 1 ordered one piece of product 1, and what the cache
\* can hold of the products then: nothing, or the answer of a GET
\* /products/1 or of a GET /products given before or after that order
OrderedProducts == UpdateStock(SeedProducts, 1, 1)

ProductAnswers(tbl) ==
    {[key |-> Key("product", 1), value |-> JsObject(tbl[1]),
      ttl |-> PRODUCT_TTL],
     [key |-> ReadKey("products", <<DefaultPage, DefaultLimit, JsNull>>),
      value |-> JsObject([products |->
                             LimitOffset(SelectProducts(tbl, JsNull),
                                         DefaultLimit, 0),
                          pagination |->
                             Pagination(DefaultPage, DefaultLimit,
                                        Len(SelectProducts(tbl, JsNull)))]),
      ttl |-> PRODUCTS_TTL]}

ProductCaches ==
    {<<>>} \cup
    {CacheSet(<<>>, e.key, e.value, e.ttl, 0, TRUE) :
        e \in ProductAnswers(SeedProducts) \cup ProductAnswers(OrderedProducts)}

InitOrderCached ==
    /\ products = OrderedProducts
    /\ orders = <<[id |-> 1, user_id |-> UserOf(1),
                   total_amount |-> SeedPrice[1], status |-> "pending"]>>
    /\ order_items = <<[order_id |-> 1, product_id |-> 1, quantity |-> 1,
                        unit_price |-> SeedPrice[1],
                        total_price |-> SeedPrice[1]]>>
    /\ cache \in ProductCaches
    /\ now = 0
    /\ ord = [r \in OrderReqs |-> OrdIdle]
    /\ ordWrites = [r \in OrderReqs |-> 0]
    /\ users = SeedUsers
    /\ config = LoadConfig(JsNull)
    /\ issued = {}
    /\ mw = [a \in AuthReqs |-> MwIdle]
    /\ loggedOut = {}
    /\ InitRest

\* one order placement, no other request
NextSingleOrder ==
    \E r \in OneOrderReq :
        \/ OrderBegin(r)
        \/ OrderValidateItem(r)
        \/ OrderInsertOrder(r)
        \/ OrderInsertItem(r)
        \/ OrderUpdateStock(r)
        \/ OrderClearDashboard(r)
        \/ OrderClearProducts(r)

SpecOrderCached == InitOrderCached /\ [][NextSingleOrder]_vars

\* one order placement from the seed store
SpecSingleOrder == InitOrder /\ [][NextSingleOrder]_vars

\* two list requests side by side
NextLists ==
    \E q \in TwoReadReqs :
       \/ ListBegin(q)
       \/ ReadCacheGet(q)
       \/ ReadQueryStore(q)
       \/ ReadCacheSet(q)

SpecLists == InitReads /\ [][NextLists]_vars

(***************************************************************************)
(* PUT /user/profile (routes/auth.js 584-638), after the middleware        *)
(* admitted the request with req.user.id = userId, interleaved with        *)
(* GET /user/profile.                                                      *)
(***************************************************************************)
\* the values a body field takes: absent, the empty string, a name
FirstNames == {JsNull, EmptyString, JsString(<<"Ada">>)}
Bios == {JsString(<<"bio">>)}

\* const { first_name, last_name, phone, bio } = req.body
ProfileBodies ==
    {[first_name |-> f, last_name |-> JsNull, phone |-> JsNull, bio |-> b] :
        f \in FirstNames, b \in Bios}

\* field || null
OrNull(v) == IF v = JsNull \/ v = EmptyString THEN JsNull ELSE v

\* the profile row a user may already have (a previous update's)
SeedProfile(u) ==
    [id |-> 1, user_id |-> u, first_name |-> JsString(<<"Test">>),
     last_name |-> JsNull, phone |-> JsNull, bio |-> JsNull,
     updated_at |-> JsDate(0)]

\* SELECT user_id FROM user_profiles WHERE user_id = $1
SelectProfileIds(tbl, userId) ==
    LET OfUser(row) == row.user_id = userId IN SelectSeq(tbl, OfUser)

\* INSERT INTO user_profiles (user_id, first_name, last_name, phone, bio)
InsertProfile(tbl, userId, f, t) ==
    Append(tbl, [id |-> Len(tbl) + 1, user_id |-> userId,
                 first_name |-> OrNull(f.first_name),
                 last_name |-> OrNull(f.last_name),
                 phone |-> OrNull(f.phone), bio |-> OrNull(f.bio),
                 updated_at |-> JsDate(t)])

\* UPDATE user_profiles SET first_name = $1, ..., updated_at =
\* CURRENT_TIMESTAMP WHERE user_id = $5
UpdateProfile(tbl, userId, f, t) ==
    [i \in 1 .. Len(tbl) |->
        IF tbl[i].user_id = userId
        THEN [tbl[i] EXCEPT !.first_name = OrNull(f.first_name),
                            !.last_name = OrNull(f.last_name),
                            !.phone = OrNull(f.phone), !.bio = OrNull(f.bio),
                            !.updated_at = JsDate(t)]
        ELSE tbl[i]]

\* res.status(code).json({success, message}): the handler returns
PfRespond(w, code, msg) ==
    pf' = [pf EXCEPT ![w].pc = "done", ![w].status = code, ![w].message = msg]

\* a request arrives; validationResult(req) rejects a malformed body.
\* Slots are taken in order.
ProfileBegin(w) ==
    /\ pf[w].pc = "idle"
    /\ \A o \in ProfileReqs : o < w => pf[o].pc # "idle"
    /\ \E userId \in AuthUserIds, fields \in ProfileBodies, valid \in BOOLEAN :
          IF ~valid
          THEN pf' = [pf EXCEPT ![w].pc = "done", ![w].userId = userId,
                                ![w].status = 400,
                                ![w].message = <<"Validation errors">>]
          ELSE pf' = [pf EXCEPT
                        ![w].pc = "select", ![w].userId = userId,
                        ![w].fields = fields,
                        ![w].readsDoneBefore =
                            {q \in ReadReqs : rd[q].pc = "done"}]
    /\ UNCHANGED <<storeVars, cache, now, ord, ordWrites, authVars, signupVars,
                   rq, readVars, user_profiles, cc, lg>>

\* const existingProfile = await query('SELECT user_id FROM user_profiles ...')
ProfileCheckExisting(w) ==
    /\ pf[w].pc = "select"
    /\ \E dbUp \in BOOLEAN :
          IF ~dbUp THEN PfRespond(w, 500, <<"Internal server error">>)
          ELSE pf' = [pf EXCEPT
                        ![w].pc = "write",
                        ![w].calls = Append(@, "select"),
                        ![w].existing =
                            Len(SelectProfileIds(user_profiles, pf[w].userId))]
    /\ UNCHANGED <<storeVars, cache, now, ord, ordWrites, authVars, signupVars,
                   rq, readVars, user_profiles, cc, lg>>

\* the INSERT when no row was found, the UPDATE otherwise
ProfileWrite(w) ==
    /\ pf[w].pc = "write"
    /\ \E dbUp \in BOOLEAN :
          IF ~dbUp
          THEN /\ PfRespond(w, 500, <<"Internal server error">>)
               /\ UNCHANGED user_profiles
          ELSE /\ user_profiles' =
                     IF pf[w].existing = 0
                     THEN InsertProfile(user_profiles, pf[w].userId,
                                        pf[w].fields, now)
                     ELSE UpdateProfile(user_profiles, pf[w].userId,
                                        pf[w].fields, now)
               /\ pf' = [pf EXCEPT
                           ![w].pc = "del",
                           ![w].calls = Append(@, IF pf[w].existing = 0
                                                  THEN "insert" ELSE "update")]
    /\ UNCHANGED <<storeVars, cache, now, ord, ordWrites, authVars, signupVars,
                   rq, readVars, cc, lg>>

\* ProfileClearCache writing the new fields into the cached profile instead
\* of deleting it.
ProfileRefreshCache(w) ==
    /\ pf[w].pc = "del"
    /\ \E up \in BOOLEAN :
          LET key == Key("profile", pf[w].userId)
              cached == CacheGet(cache, key, now, up)
          IN /\ cache' =
                  IF cached = JsNull THEN cache
                  ELSE CacheSet(cache, key,
                         JsObject([cached.v EXCEPT
                            !.first_name = OrNull(pf[w].fields.first_name),
                            !.bio = OrNull(pf[w].fields.bio)]),
                         PROFILE_TTL, now, up)
             /\ pf' = [pf EXCEPT
                         ![w].pc = "done", ![w].status = 200,
                         ![w].message = <<"Profile updated successfully">>,
                         ![w].calls = Append(@, "del"),
                         ![w].delOk = up,
                         ![w].keyBefore = RedisHas(cache, key, now),
                         ![w].keyLeft = RedisHas(cache', key, now),
                         ![w].readsIdleAfter =
                             {q \in ReadReqs : rd[q].pc = "idle"}]
    /\ UNCHANGED <<storeVars, now, ord, ordWrites, authVars, signupVars, rq,
                   readVars, user_profiles, cc, lg>>

\* await cache.del(`profile:${userId}`), then the answer
ProfileClearCache(w) ==
    /\ pf[w].pc = "del"
    /\ \E up \in BOOLEAN :
          LET key == Key("profile", pf[w].userId)
          IN /\ cache' = CacheDel(cache, key, up)
             /\ pf' = [pf EXCEPT
                         ![w].pc = "done", ![w].status = 200,
                         ![w].message = <<"Profile updated successfully">>,
                         ![w].calls = Append(@, "del"),
                         ![w].delOk = up,
                         ![w].keyBefore = RedisHas(cache, key, now),
                         ![w].keyLeft = RedisHas(cache', key, now),
                         ![w].readsIdleAfter =
                             {q \in ReadReqs : rd[q].pc = "idle"}]
    /\ UNCHANGED <<storeVars, now, ord, ordWrites, authVars, signupVars, rq,
                   readVars, user_profiles, cc, lg>>

\* the reads that a profile update touches, and the two GET /user/profile
\* requests of the specification that follows them
ProfileReadKinds == {"profile"}
OneProfileReq == {1}

InitProfile ==
    /\ products = SeedProducts
    /\ orders = <<>>
    /\ order_items = <<>>
    /\ cache = <<>>
    /\ now = 0
    /\ ord = [r \in OrderReqs |-> OrdIdle]
    /\ ordWrites = [r \in OrderReqs |-> 0]
    /\ users = SeedUsers
    /\ config = LoadConfig(JsNull)
    /\ issued = {}
    /\ mw = [a \in AuthReqs |-> MwIdle]
    /\ loggedOut = {}
    /\ su = [s \in SignupReqs |-> SuIdle]
    /\ users_id_seq = Cardinality(SeedUserIds)
    /\ rq = [a \in AuthReqs |-> JsNull]
    /\ rd = [q \in ReadReqs |-> RdIdle]
    /\ pf = [w \in ProfileReqs |-> PfIdle]
    /\ \E u \in AuthUserIds :
          user_profiles \in {<<>>, <<SeedProfile(u)>>}
    /\ cc = CcIdle
    /\ lg = [l \in LoginReqs |-> LgIdle]

NextProfile ==
    \/ \E w \in OneProfileReq :
          \/ ProfileBegin(w)
          \/ ProfileCheckExisting(w)
          \/ ProfileWrite(w)
          \/ ProfileClearCache(w)
    \/ \E q \in TwoReadReqs :
          \/ ReadBegin(q, ProfileReadKinds)
          \/ ReadCacheGet(q)
          \/ ReadQueryStore(q)
          \/ ReadCacheSet(q)

SpecProfile == InitProfile /\ [][NextProfile]_vars

\* PUT /user/profile requests of one user running concurrently
NextProfileWrites ==
    \E w \in ProfileReqs :
       \/ ProfileBegin(w)
       \/ ProfileCheckExisting(w)
       \/ ProfileWrite(w)
       \/ ProfileClearCache(w)

SpecProfileWrites == InitProfile /\ [][NextProfileWrites]_vars

(***************************************************************************)
(* The cached lookups side by side: the five read-through GET handlers and *)
(* the middleware's user lookup, over a store that does not change.  The   *)
(* store is the one a login of the user at time 0 left, with the user's    *)
(* row, or the row and a profile, or neither (the account was deleted      *)
(* since; ON DELETE CASCADE removes the profile with it).                  *)
(***************************************************************************)
LookupKinds == {"product", "products", "orders", "dashboard", "profile"}

InitLookups ==
    /\ products = SeedProducts
    /\ orders = <<>>
    /\ order_items = <<>>
    /\ cache = <<>>
    /\ now = 0
    /\ ord = [r \in OrderReqs |-> OrdIdle]
    /\ ordWrites = [r \in OrderReqs |-> 0]
    /\ config = LoadConfig(JsNull)
    /\ mw = [a \in AuthReqs |-> MwIdle]
    /\ loggedOut = {}
    /\ su = [s \in SignupReqs |-> SuIdle]
    /\ users_id_seq = Cardinality(SeedUserIds)
    /\ rq = [a \in AuthReqs |-> JsNull]
    /\ rd = [q \in ReadReqs |-> RdIdle]
    /\ pf = [w \in ProfileReqs |-> PfIdle]
    /\ cc = CcIdle
    /\ lg = [l \in LoginReqs |-> LgIdle]
    /\ \E u \in AuthUserIds :
          /\ issued = {JwtSign(u, config.JWT_SECRET, config.JWT_EXPIRES_IN, 0)}
          /\ \E deleted \in BOOLEAN, profile \in BOOLEAN :
                LET signedIn == UpdateLastLogin(SeedUsers, u, 0) IN
                IF deleted
                THEN /\ users = [x \in (DOMAIN signedIn) \ {u} |-> signedIn[x]]
                     /\ user_profiles = <<>>
                ELSE /\ users = signedIn
                     /\ user_profiles =
                           IF profile THEN <<SeedProfile(u)>> ELSE <<>>

NextLookups ==
    \/ \E q \in TwoReadReqs :
          \/ ReadBegin(q, LookupKinds)
          \/ ReadCacheGet(q)
          \/ ReadQueryStore(q)
          \/ ReadCacheSet(q)
    \/ \E a \in OneAuthReq :
          \/ MwBegin(a)
          \/ MwCheckBlacklist(a)
          \/ MwGetUser(a)
          \/ MwQueryUser(a)
          \/ MwCacheUser(a)
          \/ LogoutBlacklist(a)

SpecLookups == InitLookups /\ [][NextLookups]_vars

(***************************************************************************)
(* config/redis.js 101-144 called directly: a caller makes calls to        *)
(* cache.set, cache.get, cache.del and cache.exists, one after the other,  *)
(* while the clock may advance.                                            *)
(***************************************************************************)
CallKeys == {Key("test-key", 1), Key("test-key", 2)}

\* the values the caller stores: a primitive, an object of JSON values only,
\* and an object that holds a Date, as the user rows of the store do
CallValues ==
    {JsTrue,
     JsObject([id |-> 1, created_at |-> JsIsoString(0)]),
     JsObject([id |-> 1, created_at |-> JsDate(0)])}

\* the call is recorded as the caller's last one
CcRecord(call) ==
    cc' = [n |-> cc.n + 1, prev |-> cc.last, last |-> call]

CacheCallSet ==
    /\ cc.n < MaxCacheCalls
    /\ \E key \in CallKeys, value \in CallValues, up \in BOOLEAN :
          /\ cache' = CacheSet(cache, key, value, DEFAULT_EXPIRATION, now, up)
          /\ CcRecord([op |-> "set", key |-> key, value |-> value,
                       expiration |-> DEFAULT_EXPIRATION, up |-> up,
                       at |-> now, outcome |-> CacheSetCall(up)])
    /\ UNCHANGED <<now, orderVars, authVars, signupVars, rq, readVars,
                   profileVars, lg>>

CacheCallGet ==
    /\ cc.n < MaxCacheCalls
    /\ \E key \in CallKeys, up \in BOOLEAN :
          CcRecord([op |-> "get", key |-> key, up |-> up, at |-> now,
                    outcome |-> CacheGetCall(cache, key, now, up)])
    /\ UNCHANGED <<cache, now, orderVars, authVars, signupVars, rq, readVars,
                   profileVars, lg>>

CacheCallDel ==
    /\ cc.n < MaxCacheCalls
    /\ \E key \in CallKeys, up \in BOOLEAN :
          /\ cache' = CacheDel(cache, key, up)
          /\ CcRecord([op |-> "del", key |-> key, up |-> up, at |-> now,
                       outcome |-> CacheDelCall(up)])
    /\ UNCHANGED <<now, orderVars, authVars, signupVars, rq, readVars,
                   profileVars, lg>>

CacheCallExists ==
    /\ cc.n < MaxCacheCalls
    /\ \E key \in CallKeys, up \in BOOLEAN :
          CcRecord([op |-> "exists", key |-> key, up |-> up, at |-> now,
                    outcome |-> CacheExistsCall(cache, key, now, up)])
    /\ UNCHANGED <<cache, now, orderVars, authVars, signupVars, rq, readVars,
                   profileVars, lg>>

NextCache ==
    \/ CacheCallSet
    \/ CacheCallGet
    \/ CacheCallDel
    \/ CacheCallExists
    \/ Tick

SpecCache == InitReads /\ [][NextCache]_vars

(***************************************************************************)
(* POST /login (routes/auth.js 115-207), one action per await.  The        *)
(* request's e-mail is a seed user's or one that no account has.           *)
(***************************************************************************)
UnknownEmail == <<"nonexistent", 0>>
SeedPassword == "password123"
LoginEmails == {SeedUsers[u].email : u \in AuthUserIds} \cup {UnknownEmail}
LoginPasswords == {SeedPassword, "wrongpassword"}

\* bcrypt.compare(password, hash): every seed row holds the hash of
\* SeedPassword
BcryptCompare(password, hash) ==
    /\ password = SeedPassword
    /\ \E u \in SeedUserIds : hash = SeedUsers[u].password_hash

\* res.status(code).json({success, message}): the handler returns
LgRespond(l, code, msg) == [lg[l] EXCEPT !.pc = "done", !.status = code,
                                         !.message = msg]

\* the request arrives with a body that passed loginValidation
LoginBegin(l) ==
    /\ lg[l].pc = "idle"
    /\ \A k \in LoginReqs : k < l => lg[k].pc # "idle"
    /\ \E email \in LoginEmails, password \in LoginPasswords :
          lg' = [lg EXCEPT ![l] = [@ EXCEPT
                    !.pc = "cache_get", !.email = email, !.password = password,
                    !.known = SelectUserByEmail(users, email) # <<>>]]
    /\ UNCHANGED <<cache, now, orderVars, authVars, signupVars, rq, readVars,
                   profileVars, cc>>

\* let user = await cache.get(`user:email:${email}`)
LoginCacheGet(l) ==
    /\ lg[l].pc = "cache_get"
    /\ \E up \in BOOLEAN :
          LET user == CacheGet(cache, Key("user:email", lg[l].email), now, up)
          IN lg' = [lg EXCEPT ![l].user = user,
                              ![l].cacheHit = user # JsNull,
                              ![l].pc = IF user # JsNull THEN "compare"
                                        ELSE "query"]
    /\ UNCHANGED <<cache, now, orderVars, authVars, signupVars, rq, readVars,
                   profileVars, cc>>

\* the SELECT by e-mail on a miss; no row: 401
LoginQueryUser(l) ==
    /\ lg[l].pc = "query"
    /\ \E dbUp \in BOOLEAN :
          IF ~dbUp
          THEN lg' = [lg EXCEPT ![l] =
                         LgRespond(l, 500, <<"Internal server error">>)]
          ELSE LET result == SelectUserByEmail(users, lg[l].email) IN
               IF Len(result) = 0
               THEN lg' = [lg EXCEPT ![l] =
                              LgRespond(l, 401, <<"Invalid credentials">>)]
               ELSE lg' = [lg EXCEPT ![l].user = JsObject(result[1]),
                                     ![l].pc = "cache_set"]
    /\ UNCHANGED <<cache, now, orderVars, authVars, signupVars, rq, readVars,
                   profileVars, cc>>

\* await cache.set(`user:email:${email}`, user, 3600)
LoginCacheUser(l) ==
    /\ lg[l].pc = "cache_set"
    /\ \E up \in BOOLEAN :
          cache' = CacheSet(cache, Key("user:email", lg[l].email), lg[l].user,
                            USER_TTL, now, up)
    /\ lg' = [lg EXCEPT ![l].pc = "compare"]
    /\ UNCHANGED <<now, orderVars, authVars, signupVars, rq, readVars,
                   profileVars, cc>>

\* await bcrypt.compare(password, user.password_hash); a mismatch: 401;
\* a match: the token is signed and stored in the session
LoginComparePassword(l) ==
    /\ lg[l].pc = "compare"
    /\ IF ~BcryptCompare(lg[l].password, lg[l].user.v.password_hash)
       THEN lg' = [lg EXCEPT ![l] =
                      LgRespond(l, 401, <<"Invalid credentials">>)]
       ELSE LET token == JwtSign(lg[l].user.v.id, config.JWT_SECRET,
                                 config.JWT_EXPIRES_IN, now)
            IN lg' = [lg EXCEPT ![l].token = token,
                         ![l].session = [token |-> token,
                                         userId |-> lg[l].user.v.id],
                         ![l].pc = "update"]
    /\ UNCHANGED <<cache, now, orderVars, authVars, signupVars, rq, readVars,
                   profileVars, cc>>

\* the UPDATE of last_login, then the 200 response with the token
LoginUpdateLastLogin(l) ==
    /\ lg[l].pc = "update"
    /\ \E dbUp \in BOOLEAN :
          IF ~dbUp
          THEN /\ lg' = [lg EXCEPT ![l] =
                            LgRespond(l, 500, <<"Internal server error">>)]
               /\ UNCHANGED <<users, issued>>
          ELSE /\ users' = UpdateLastLogin(users, lg[l].user.v.id, now)
               /\ issued' = issued \cup {lg[l].token}
               /\ lg' = [lg EXCEPT ![l] =
                            [LgRespond(l, 200, <<"Login successful">>) EXCEPT
                                !.lastLoginSet = users' # users]]
    /\ UNCHANGED <<config, mw, loggedOut, cache, now, orderVars, signupVars,
                   rq, readVars, profileVars, cc>>

NextLogin ==
    \/ \E l \in LoginReqs :
          \/ LoginBegin(l)
          \/ LoginCacheGet(l)
          \/ LoginQueryUser(l)
          \/ LoginCacheUser(l)
          \/ LoginComparePassword(l)
          \/ LoginUpdateLastLogin(l)
    \/ \E u \in AuthUserIds : DeleteUser(u)
    \/ Tick

SpecLogin == InitOrder /\ [][NextLogin]_vars

(***************************************************************************)
(* Order placement: the claims.                                            *)
(***************************************************************************)
RECURSIVE SumQuantity(_)
SumQuantity(rows) ==
    IF rows = <<>> THEN 0 ELSE Head(rows).quantity + SumQuantity(Tail(rows))

\* the lines of request r's order that name product p, as persisted
LinesOf(r, p) ==
    LET Names(row) == row.product_id = p
    IN SelectSeq(ItemsOfOrder(order_items, ord[r].orderId), Names)

Answered(code) == {r \in OrderReqs : ord[r].status = code}

QuantityOf(r, p) == SumQuantity(LinesOf(r, p))

\* the quantity of product p in the orders of the requests in S
RECURSIVE QuantityOver(_, _)
QuantityOver(S, p) ==
    IF S = {} THEN 0
    ELSE LET r == CHOOSE x \in S : TRUE
         IN QuantityOf(r, p) + QuantityOver(S \ {r}, p)

Quiescent == \A r \in OrderReqs : ord[r].pc \in {"idle", "done"}

\* C1: in every reachable state every product's stock_quantity is >= 0.
C1_StockNeverNegative ==
    \A p \in DOMAIN products : products[p].stock_quantity >= 0

\* C2: the order requests answered 201 that name a product in one line each
\* have quantities of it summing to at most the stock there was beforehand
\* (concurrent requests never oversell a product between them).
C2_ConcurrentOrdersNeverOversell ==
    \A p \in ProductIds :
        QuantityOver({r \in Answered(201) : Len(LinesOf(r, p)) <= 1}, p)
            <= SeedProducts[p].stock_quantity

\* C3: once every order request has been answered, each product's stock is
\* its initial stock minus the quantities of it in the orders answered 201.
C3_StockIsInitialMinusOrdered ==
    Quiescent =>
        \A p \in ProductIds :
            products[p].stock_quantity =
                SeedProducts[p].stock_quantity
                    - QuantityOver(Answered(201), p)

\* C4: an order request answered 400 has persisted nothing: it wrote no
\* order row, no order-item row and no stock change.
C4_RejectedOrderPersistsNothing ==
    \A r \in OrderReqs :
        ord[r].status = 400 =>
            /\ ordWrites[r] = 0
            /\ ord[r].orderId = 0

\* a request is rejected at its second item, after its first item passed,
\* while another request's order is in the store
C4_Witness ==
    \E r \in OrderReqs :
        /\ ord[r].status = 400
        /\ Len(ord[r].orderItems) = 1
        /\ ord[r].nItems = 2
        /\ orders # <<>>

\* C5: in every reachable state every order row's total_amount is the sum of
\* total_price over the order-item rows that belong to it.
C5_OrderTotalIsSumOfItems ==
    \A i \in 1 .. Len(orders) :
        orders[i].total_amount = SumTotalPrice(ItemsOfOrder(order_items, i))

(***************************************************************************)
(* The authentication middleware and logout (SpecAuth).                    *)
(***************************************************************************)
\* the body of the middleware's generic rejection
GenericRejection == [success |-> FALSE, message |-> "Token is not valid"]

\* requests that have been answered
AnsweredAuth == {a \in AuthReqs : mw[a].pc = "done"}

\* C6: a request that presents a token for which POST /logout had already
\* answered success when the request arrived is never passed to the handler
\* behind the middleware, and its answer is a 401.
C6_LoggedOutTokenRejected ==
    \A a \in AuthReqs :
        mw[a].afterLogout =>
            /\ ~mw[a].next
            /\ mw[a].pc = "done" => mw[a].status = 401

\* C7: every blacklist entry written at logout lives at least until the
\* token it names expires.
C7_BlacklistOutlivesToken ==
    \A key \in DOMAIN cache :
        key[1] = "blacklist" => cache[key].expireAt >= key[2].exp

\* C8: a request whose verified token names a user that was not in the store
\* when the request arrived is never passed to the handler behind the
\* middleware, and its answer is a 401.
C8_MissingSubjectRejected ==
    \A a \in AuthReqs :
        mw[a].subjectGone =>
            /\ ~mw[a].next
            /\ mw[a].pc = "done" => mw[a].status = 401

C10_CaughtErrorIsGeneric ==
    \A a \in AuthReqs :
        mw[a].caught # JsNull =>
            /\ mw[a].pc = "done"
            /\ mw[a].status = 401
            /\ mw[a].body = GenericRejection
            /\ ~mw[a].next

\* one request ended by a failed store query, another by jwt.verify throwing
C10_Witness ==
    \E a, b \in AnsweredAuth :
        /\ mw[a].caught = StoreError
        /\ mw[b].caught # JsNull
        /\ mw[b].caught.name \in {"JsonWebTokenError", "TokenExpiredError"}

\* how often the middleware made a call for a request
Count(calls, call) == Cardinality({i \in 1 .. Len(calls) : calls[i] = call})

\* the outcome of a run of the middleware
Admitted(m) ==
    /\ Count(m.calls, "next") = 1
    /\ Count(m.calls, "401") = 0
    /\ m.next
    /\ m.user # JsNull
    /\ m.token # JsNull

Rejected(m) ==
    /\ Count(m.calls, "401") = 1
    /\ Count(m.calls, "next") = 0
    /\ ~m.next
    /\ m.status = 401

\* C11: a run of the middleware that has ended was either admitted (next()
\* called once with req.user and req.token set, no 401 sent) or rejected (one
\* 401 sent, next() never called); while it runs it has done neither; and a
\* request without a credential is rejected with no call of the cache, of
\* jwt.verify or of the store.
C11_ExactlyOneOutcome ==
    \A a \in AuthReqs :
        /\ mw[a].pc \in {"done", "logout_set"} =>
              /\ Admitted(mw[a]) \/ Rejected(mw[a])
              /\ ~(Admitted(mw[a]) /\ Rejected(mw[a]))
        /\ mw[a].pc \notin {"done", "logout_set"} =>
              /\ Count(mw[a].calls, "next") = 0
              /\ Count(mw[a].calls, "401") = 0
        /\ mw[a].pc = "done" /\ mw[a].token = JsNull =>
              mw[a].calls = <<"401">>

\* one request was admitted, another came without a credential and was
\* rejected
C11_Witness ==
    \E a, b \in AnsweredAuth :
        /\ Admitted(mw[a])
        /\ Rejected(mw[b])
        /\ mw[b].token = JsNull

\* C12: a request whose token had a blacklist entry in the cache when the
\* middleware made its revocation check is answered 401 'Token has been
\* invalidated', and the middleware called neither jwt.verify nor the user
\* lookup for it: the revocation check and the 401 are all it did.
C12_RevokedRejectedBeforeVerify ==
    \A a \in AuthReqs :
        mw[a].revokedAtCheck =>
            /\ mw[a].pc = "done"
            /\ mw[a].status = 401
            /\ mw[a].body = [success |-> FALSE,
                             message |-> "Token has been invalidated"]
            /\ mw[a].calls = <<"exists", "401">>

(***************************************************************************)
(* Signup and the middleware (SpecSignup).                                 *)
(***************************************************************************)
\* the keys user:<id> present in the cache
UserKeys == {key \in DOMAIN cache : key[1] = "user"}

\* a JavaScript object with a password_hash property
HasPasswordHash(x) == x.t = "object" /\ "password_hash" \in DOMAIN x.v

\* C13: req.user of an admitted request never has a password_hash, whether
\* it came from the cache or from the store, and no value stored under a key
\* user:<id> (by signup or by the middleware) has one.
C13_IdentityWithoutPasswordHash ==
    /\ \A a \in AuthReqs : ~HasPasswordHash(mw[a].user)
    /\ \A key \in UserKeys : ~HasPasswordHash(JSONparse(cache[key].text))

\* a request admitted with the identity that signup cached, and the entry
\* still in the cache
C13_WitnessFromCache ==
    \E a \in AuthReqs, s \in SignupReqs :
        /\ mw[a].next
        /\ mw[a].calls = <<"exists", "verify", "get", "next">>
        /\ su[s].pc = "done" /\ su[s].status = 201
        /\ mw[a].userId = su[s].userId
        /\ Key("user", su[s].userId) \in UserKeys

(***************************************************************************)
(* The middleware's rejections (SpecAuth).                                 *)
(***************************************************************************)
\* C14: any two requests that the middleware answered with a 401 got the
\* same response body, whatever the reason of the rejection was.
C14_RejectionsIndistinguishable ==
    \A a, b \in AnsweredAuth :
        mw[a].status = 401 /\ mw[b].status = 401 => mw[a].body = mw[b].body

(***************************************************************************)
(* The credential the middleware uses (SpecCredential).                    *)
(***************************************************************************)
\* the Authorization headers that yield no token: none, '', 'Bearer '
NoTokenHeaders == {JsNull, JsString(<<>>), JsString(<<BearerPrefix>>)}

\* C15: the token the middleware works with is the one of the Authorization
\* header ('Bearer <token>', or the bare token) whenever the header carries
\* one, whatever the session holds; it is the session's token exactly when
\* the header yields none; and an admitted request's req.token is that
\* token, which jwt.verify accepts.
C15_HeaderBeforeSession ==
    \A a \in AuthReqs :
        rq[a] # JsNull =>
            LET header == rq[a].header
                sessionToken == rq[a].session.token
            IN /\ header \in NoTokenHeaders => mw[a].token = sessionToken
               /\ \A t \in ClientTokens :
                     header \in {JsString(<<t>>), JsString(<<BearerPrefix, t>>)}
                        => mw[a].token = t
               /\ header \notin NoTokenHeaders =>
                     /\ mw[a].token # JsNull
                     /\ mw[a].token \in ClientTokens =>
                           header \in {JsString(<<mw[a].token>>),
                                       JsString(<<BearerPrefix, mw[a].token>>)}
               /\ mw[a].next =>
                     JwtVerifyError(mw[a].token, config.JWT_SECRET, now) = JsNull

\* a request admitted on the token of its header while its session held
\* another token
C15_WitnessHeaderWins ==
    \E a \in AuthReqs :
        /\ rq[a] # JsNull
        /\ mw[a].next
        /\ rq[a].header = JsString(<<BearerPrefix, mw[a].token>>)
        /\ rq[a].session.token = ForgedToken

(***************************************************************************)
(* Reads after an order placement (SpecReads).                             *)
(***************************************************************************)
\* the products of the order items of request r
ProductsOrdered(r) ==
    {ord[r].orderItems[i].product_id : i \in 1 .. Len(ord[r].orderItems)}

\* the stock quantities an answered product read shows for product p
StockShown(q, p) ==
    IF rd[q].kind = "product"
    THEN {rd[q].body.v.stock_quantity : x \in {rd[q].arg} \cap {p}}
    ELSE {rd[q].body.v.products[i].stock_quantity :
            i \in {j \in 1 .. Len(rd[q].body.v.products) :
                      rd[q].body.v.products[j].id = p}}

\* C16: a GET /products/:id or GET /products that arrives after an order
\* placement was answered 201 and is answered 200 shows, for every product
\* of that order, the stock quantity the store holds after the order, also
\* when the product or the listing was in the cache before the order.
C16_LaterReadsSeeDecrementedStock ==
    \A q \in ReadReqs :
        (rd[q].status = 200 /\ rd[q].kind \in {"product", "products"}) =>
            \A r \in rd[q].began.orders :
                \A p \in ProductsOrdered(r) :
                    \A stock \in StockShown(q, p) :
                        stock = products[p].stock_quantity

\* C17: a GET /products/orders/my of the placing user that arrives after the
\* order placement was answered 201 and is answered 200 lists the new order,
\* also when a page of the user's order history was in the cache before.
C17_LaterHistoryIncludesOrder ==
    \A q \in ReadReqs :
        (rd[q].status = 200 /\ rd[q].kind = "orders") =>
            \A r \in rd[q].began.orders :
                ord[r].userId = rd[q].arg[1] =>
                    \E i \in 1 .. Len(rd[q].body.v.orders) :
                        rd[q].body.v.orders[i].id = ord[r].orderId

\* the step in which request r answers 201 leaves no live dashboard:<userId>
\* entry of the placing user in the cache
AnswersWithDashboardAbsent(r) ==
    (ord[r].status # 201 /\ ord'[r].status = 201) =>
        ~RedisHas(cache', Key("dashboard", ord[r].userId), now')

\* a GET /user/dashboard of the placing user that arrives after the 201 and is
\* answered 200 counts the new order
DashboardCountsOrder(q, r) ==
    (rd[q].status = 200 /\ rd[q].kind = "dashboard"
        /\ r \in rd[q].began.orders /\ ord[r].userId = rd[q].arg) =>
        /\ rd[q].body.v.stats.total_orders
              = Len(SelectOrdersOfUser(orders, order_items, rd[q].arg,
                                       Len(orders)))
        /\ \E i \in 1 .. Len(rd[q].body.v.recent_orders) :
              rd[q].body.v.recent_orders[i].id = ord[r].orderId

\* C18: when an order placement answers 201 the cache holds no
\* dashboard:<userId> entry of the placing user, and a GET /user/dashboard of
\* that user that arrives afterwards shows statistics that count the new order.
C18_DashboardAbsentAtAnswer ==
    /\ [][\A r \in OrderReqs : AnswersWithDashboardAbsent(r)]_vars
    /\ [](\A q \in ReadReqs : \A r \in OrderReqs : DashboardCountsOrder(q, r))

(***************************************************************************)
(* The profile and its cache entry (SpecProfile).                          *)
(***************************************************************************)
\* request w is the only profile update that has written the store
OnlyWriter(w) ==
    \A o \in ProfileReqs \ {w} : Len(pf[o].calls) < 2

\* the answered profile shows the fields request w wrote
ShowsUpdate(q, w) ==
    /\ rd[q].body.v.first_name = OrNull(pf[w].fields.first_name)
    /\ rd[q].body.v.last_name = OrNull(pf[w].fields.last_name)
    /\ rd[q].body.v.phone = OrNull(pf[w].fields.phone)
    /\ rd[q].body.v.bio = OrNull(pf[w].fields.bio)

\* C19: a GET /user/profile that arrives after a PUT /user/profile of the
\* same user answered success, and is answered 200, shows the profile that
\* update wrote, whatever other GET /user/profile was in flight during the
\* update.
C19_LaterReadsSeeUpdate ==
    \A q \in ReadReqs :
        (rd[q].status = 200 /\ rd[q].kind = "profile") =>
            \A w \in rd[q].began.puts :
                (pf[w].userId = rd[q].arg /\ OnlyWriter(w)) => ShowsUpdate(q, w)

\* no GET /user/profile was in flight while request w ran: each had been
\* answered when w arrived or had not arrived when w answered
Alone(w) == pf[w].readsDoneBefore \cup pf[w].readsIdleAfter = ReadReqs

\* a step of request w leaves every cache entry it does not remove as it was
OnlyRemoves(w) ==
    pf'[w].pc # pf[w].pc =>
        \A key \in DOMAIN cache' : key \in DOMAIN cache /\ cache'[key] = cache[key]

ProfileFields == {"first_name", "last_name", "phone", "bio"}

\* the step in which request w updates existing rows leaves the fields its
\* body omits as they were
UpdateKeepsOmitted(w) ==
    (pf[w].pc = "write" /\ pf'[w].pc = "del" /\ pf[w].existing # 0) =>
        \A i \in 1 .. Len(user_profiles) :
            user_profiles[i].user_id = pf[w].userId =>
                \A f \in ProfileFields :
                    pf[w].fields[f] = JsNull =>
                        user_profiles'[i][f] = user_profiles[i][f]

\* C21: a PUT /user/profile whose body omits some of first_name, last_name,
\* phone, bio leaves each omitted field of the user's existing profile row
\* unchanged in the store.
C21_OmittedFieldsUnchanged ==
    [][\A w \in ProfileReqs : UpdateKeepsOmitted(w)]_vars

\* C22: in every reachable state each user has at most one row in
\* user_profiles, whatever the interleaving of that user's concurrent
\* PUT /user/profile requests.
C22_AtMostOneProfileRow ==
    \A u \in SeedUserIds : Len(SelectProfileIds(user_profiles, u)) <= 1

(***************************************************************************)
(* The cache helper called directly (SpecCache).                           *)
(***************************************************************************)
\* the caller's last call is a working cache.get of the key that its call
\* before, a working cache.set, wrote, made before the entry's TTL ran out
GetFollowsSet ==
    /\ cc.prev.op = "set" /\ cc.prev.up
    /\ cc.last.op = "get" /\ cc.last.up
    /\ cc.last.key = cc.prev.key
    /\ cc.last.at < cc.prev.at + cc.prev.expiration

\* the caller's last call is a working cache.get of the key that its call
\* before, a working cache.del, removed
GetFollowsDel ==
    /\ cc.prev.op = "del" /\ cc.prev.up
    /\ cc.last.op = "get" /\ cc.last.up
    /\ cc.last.key = cc.prev.key

\* the value holds a Date object
HoldsDate(v) ==
    /\ v.t = "object"
    /\ \E f \in (DOMAIN v.v) \cap DateFields : "date" \in DOMAIN v.v[f]

\* C23 as stated: cache.get after cache.set returns a value deep-equal to the
\* value set, and cache.get after cache.del returns null.
C23_RoundTripDeepEqual ==
    /\ GetFollowsSet => cc.last.outcome = [returned |-> cc.prev.value]
    /\ GetFollowsDel => cc.last.outcome = [returned |-> JsNull]

\* C23: with a working cache and within the TTL, cache.get after
\* cache.set(k, v, ttl) returns v when v holds no Date, and v with each Date
\* replaced by its ISO-8601 string otherwise; cache.get after cache.del
\* returns null.
C23_RoundTripOfJson ==
    /\ GetFollowsSet =>
          IF HoldsDate(cc.prev.value)
          THEN cc.last.outcome =
                  [returned |-> JsObject([cc.prev.value.v EXCEPT
                      !.created_at = JsIsoString(@.date)])]
          ELSE cc.last.outcome = [returned |-> cc.prev.value]
    /\ GetFollowsDel => cc.last.outcome = [returned |-> JsNull]

\* a get that follows the set of an object holding a Date
C23_Witness == GetFollowsSet /\ HoldsDate(cc.prev.value)

\* the calls the caller has made last
CallsMade == {call \in {cc.prev, cc.last} : call.op # "none"}

\* what a helper returns when its Redis call fails
Fallback(op) == IF op = "get" THEN JsNull ELSE JsFalse

\* C24: no call of cache.get, cache.set, cache.del or cache.exists raises to
\* its caller; a call whose Redis transport fails returns null for cache.get
\* and false for cache.set, cache.del and cache.exists.
C24_CacheNeverRaises ==
    \A call \in CallsMade :
        /\ DOMAIN call.outcome = {"returned"}
        /\ ~call.up => call.outcome.returned = Fallback(call.op)

\* a failing cache.exists right after a failing cache.get
C24_Witness ==
    /\ cc.prev.op = "get" /\ ~cc.prev.up
    /\ cc.last.op = "exists" /\ ~cc.last.up
    /\ cc.prev.outcome = [returned |-> JsNull]
    /\ cc.last.outcome = [returned |-> JsFalse]

(***************************************************************************)
(* The cached lookups over an unchanging store (SpecLookups).              *)
(***************************************************************************)
\* the entries of a sequence
Range(seq) == {seq[i] : i \in 1 .. Len(seq)}

\* the response a read derives from the store alone: the status and, for
\* a 200, the data the client reads
FromStore(kind, arg) ==
    LET data == ReadStore(kind, arg)
    IN IF data = JsNull THEN [status |-> 404, body |-> JsNull]
       ELSE [status |-> 200, body |-> JSONparse(JSONstringify(data))]

\* an answered read agrees with the store: a failed cache.get is followed by
\* the store query; a read that queried the store answers what the store
\* holds, or 500 when the query failed; a 404 comes from a store query that
\* found nothing
ReadFollowsStore(q) ==
    LET r == rd[q]
        answer == [status |-> r.status, body |-> r.body]
    IN /\ "get" \in r.failed => "query" \in Range(r.calls)
       /\ "query" \in Range(r.calls) =>
             IF "query" \in r.failed THEN r.status = 500
             ELSE answer = FromStore(r.kind, r.arg)
       /\ r.status = 404 =>
             /\ r.calls = <<"get", "query">>
             /\ "query" \notin r.failed
             /\ ReadStore(r.kind, r.arg) = JsNull

\* an answered middleware run agrees with the store: 'User not found' comes
\* right after a store query, for a user the store does not hold; a user
\* looked up in the store is the store's row
LookupFollowsStore(a) ==
    LET m == mw[a]
        n == Len(m.calls)
    IN /\ (m.status = 401 /\ m.body.message = "User not found") =>
             /\ n >= 2 /\ m.calls[n - 1] = "query"
             /\ m.userId \notin DOMAIN users
       /\ (m.next /\ "query" \in Range(m.calls)) =>
             /\ m.userId \in DOMAIN users
             /\ <<m.user.v>> = SelectUserIdentity(users, m.userId)
       /\ (m.next /\ m.userId \notin DOMAIN users) =>
             "query" \notin Range(m.calls)

\* C25: a cache miss or a cache failure is never read as 'the entity does
\* not exist'.  Every read endpoint whose cache.get fails, or misses, goes on
\* to the store and answers exactly what the store holds; a 404 of a read
\* and the middleware's 401 'User not found' are sent only after a store
\* query that found nothing.
C25_MissIsNotAbsence ==
    /\ \A q \in ReadReqs : rd[q].pc = "done" => ReadFollowsStore(q)
    /\ \A a \in AuthReqs : mw[a].pc = "done" => LookupFollowsStore(a)

\* a read whose cache.get and cache.set failed while the cache held its key,
\* answered 200 from the store
C25_Witness ==
    \E q \in ReadReqs :
        /\ rd[q].pc = "done"
        /\ rd[q].failed = {"get", "set"}
        /\ rd[q].status = 200
        /\ RedisHas(cache, ReadKey(rd[q].kind, rd[q].arg), now)

(***************************************************************************)
(* The cache keys of the list queries (SpecLists).                         *)
(***************************************************************************)
\* the query a list request makes to the store: for the product list page,
\* limit and the category filter (JsNull: none, all products); for the
\* order history user, page and limit
ListQuery(kind, arg) ==
    IF kind = "products"
    THEN <<arg[1], arg[2], IF Truthy(arg[3]) THEN arg[3] ELSE JsNull>>
    ELSE arg

\* C26: two product-list requests whose queries differ in page, limit or
\* category filter (no filter against a filter value included), and two
\* order-history requests that differ in user, page or limit, have
\* different cache keys.
C26_ListKeysInjective ==
    \A q1, q2 \in ReadReqs :
        (/\ rd[q1].pc # "idle" /\ rd[q2].pc # "idle"
         /\ rd[q1].kind = rd[q2].kind
         /\ ListQuery(rd[q1].kind, rd[q1].arg)
               # ListQuery(rd[q2].kind, rd[q2].arg))
        => ReadKey(rd[q1].kind, rd[q1].arg) # ReadKey(rd[q2].kind, rd[q2].arg)

(***************************************************************************)
(* The store comes before the cache.                                       *)
(***************************************************************************)
\* the store writes among the logged calls of a request
WritesIn(calls) ==
    {i \in 1 .. Len(calls) : calls[i] \in {"insert", "update", "delete"}}

\* the cache writes (set, del) among the logged calls of a request
CacheWritesIn(calls) == {i \in 1 .. Len(calls) : calls[i] \in {"set", "del"}}

\* C27: each operation that changes what later requests observe writes the
\* store before it touches the cache: an order placement that has reached
\* its cache deletes has written the store, a profile update's cache.del
\* follows its INSERT or UPDATE, and a logout that was answered success has
\* written the store.
C27_StoreBeforeCache ==
    /\ \A r \in OrderReqs :
          ord[r].pc \in {"del_dashboard", "del_products"} => ordWrites[r] > 0
    /\ \A w \in ProfileReqs :
          \A i \in CacheWritesIn(pf[w].calls) :
             \E j \in WritesIn(pf[w].calls) : j < i
    /\ \A a \in AuthReqs :
          (mw[a].handler = "logout" /\ mw[a].status = 200) =>
              WritesIn(mw[a].calls) # {}

(***************************************************************************)
(* Stock only goes down.                                                   *)
(***************************************************************************)
\* C28: no step increases a product's stock_quantity, whatever quantities the
\* items of the order requests carry.
C28_StockNeverIncreases ==
    [][\A p \in ProductIds :
          products'[p].stock_quantity <= products[p].stock_quantity]_vars

(***************************************************************************)
(* Login: unknown e-mail and wrong password.                               *)
(***************************************************************************)
\* the e-mail of the login request had no account when the request arrived
UnknownEmailAttempt(l) == lg[l].pc = "done" /\ ~lg[l].known

\* the e-mail had an account and the password was not the account's
WrongPasswordAttempt(l) ==
    lg[l].pc = "done" /\ lg[l].known /\ lg[l].password # SeedPassword

\* the answer 401 'Invalid credentials', no session token, last_login as it was
Refused(l) ==
    /\ lg[l].status = 401
    /\ lg[l].message = <<"Invalid credentials">>
    /\ lg[l].session = JsNull
    /\ ~lg[l].lastLoginSet

\* C29: a login attempt with an e-mail that has no account and one with an
\* existing e-mail and a wrong password are both answered 401 'Invalid
\* credentials', and neither sets a session token nor updates last_login.
C29_SameRefusal ==
    \A l \in LoginReqs :
        (UnknownEmailAttempt(l) \/ WrongPasswordAttempt(l)) => Refused(l)

(***************************************************************************)
(* Signup: duplicates.                                                     *)
(***************************************************************************)
\* the signup asks for an e-mail or a username that a seed user holds
AsksForTaken(s) ==
    SelectExistingUser(SeedUsers, su[s].email, su[s].username) # {}

\* two signups ask for the same e-mail or the same username
Collide(s, t) ==
    s # t /\ (su[s].email = su[t].email \/ su[s].username = su[t].username)

\* C30: a signup whose e-mail or username already belongs to a user is
\* answered 409 and creates no user; of several signups that ask for the same
\* new e-mail or username, exactly one is answered 201 and each other one is
\* answered 409.
C30_DuplicateSignupIs409 ==
    /\ \A s \in SignupReqs :
          (su[s].pc = "done" /\ AsksForTaken(s)) =>
              (su[s].status = 409 /\ su[s].userId = 0)
    /\ \A s, t \in SignupReqs :
          (/\ su[s].pc = "done" /\ su[t].pc = "done"
           /\ Collide(s, t)
           /\ ~AsksForTaken(s) /\ ~AsksForTaken(t)) =>
              {su[s].status, su[t].status} = {201, 409}

(***************************************************************************)
(* Subject resolution in the middleware is read-through.                   *)
(***************************************************************************)
\* request a receives the answer of cache.get(`user:${decoded.userId}`)
GetUserStep(a) == mw[a].pc = "get_user" /\ mw'[a].pc # "get_user"

\* request a receives the answer of cache.set(`user:${decoded.userId}`, ...)
SetUserStep(a) == mw[a].pc = "set_user" /\ mw'[a].pc # "set_user"

\* user:<id> of request a is in the cache
UserKeyPresent(a) == RedisHas(cache, Key("user", mw[a].userId), now)

\* how often the middleware of request m called the store
QueriesOf(m) == Cardinality({i \in 1 .. Len(m.calls) : m.calls[i] = "query"})

\* the request goes on without a store query, with the cached identity
AdmittedFromCache(a) ==
    /\ mw'[a].next
    /\ mw'[a].user = JSONparse(cache[Key("user", mw[a].userId)].text)
    /\ QueriesOf(mw'[a]) = 0

\* the row read from the store is in the cache under user:<id> for 3600 s
RowCached(a) ==
    /\ Key("user", mw[a].userId) \in DOMAIN cache'
    /\ cache'[Key("user", mw[a].userId)] =
          [text |-> JSONstringify(mw[a].user), expireAt |-> now + 3600]

\* C31 as stated: with user:<id> present the store is not queried and the
\* cached identity is attached; with it absent the store is queried once and
\* the row of an existing user is in user:<id> with a TTL of 3600 seconds
\* when the request is admitted.
C31_ReadThroughAlways ==
    [][\A a \in AuthReqs :
          /\ (GetUserStep(a) /\ UserKeyPresent(a)) => AdmittedFromCache(a)
          /\ (GetUserStep(a) /\ ~UserKeyPresent(a)) =>
                 mw'[a].pc = "query_user"
          /\ SetUserStep(a) =>
                 (QueriesOf(mw[a]) = 1 /\ RowCached(a) /\ mw'[a].next)]_vars

\* C31: read-through up to cache failures.  When cache.get returns the entry
\* of user:<id> the store is not queried and the cached identity is attached;
\* when the entry is absent, or present and the cache call fails, the store is
\* queried; after exactly one store query that found the user the middleware
\* calls cache.set(user:<id>, row, 3600) and then admits the request, and the
\* entry is then the row with a TTL of 3600 seconds unless that call failed,
\* in which case the cache is as it was.
C31_ReadThroughUnlessCacheFails ==
    [][\A a \in AuthReqs :
          /\ (GetUserStep(a) /\ UserKeyPresent(a)) =>
                 \/ AdmittedFromCache(a)
                 \/ mw'[a].pc = "query_user" /\ mw'[a].cacheFailed
          /\ (GetUserStep(a) /\ ~UserKeyPresent(a)) =>
                 mw'[a].pc = "query_user"
          /\ SetUserStep(a) =>
                 /\ QueriesOf(mw[a]) = 1
                 /\ mw'[a].next
                 /\ RowCached(a) \/ cache' = cache]_vars

\* a request was admitted with the cached identity and without a store query,
\* another after one store query with its row cached
C31_Witness ==
    \E a, b \in AuthReqs :
        /\ mw[a].next /\ mw[a].calls = <<"exists", "verify", "get", "next">>
        /\ mw[b].next
        /\ mw[b].calls = <<"exists", "verify", "get", "query", "set", "next">>
        /\ RedisHas(cache, Key("user", mw[b].userId), now)

(***************************************************************************)
(* Order placement does not read the product cache.                        *)
(***************************************************************************)
\* request r passes an item in this step: the item it appends
PassedItem(r) == ord'[r].orderItems[Len(ord'[r].orderItems)]

ItemPasses(r) ==
    ord[r].pc = "validate" /\ Len(ord'[r].orderItems) = Len(ord[r].orderItems) + 1

\* request r is rejected in this step of its validation loop
ItemRejected(r) ==
    ord[r].pc = "validate" /\ ord'[r].pc = "done" /\ ord'[r].status = 400

\* C32: the outcome of an order placement is decided by the store's product
\* rows alone, whatever product:<id> and products:* hold.  An item passes
\* only if the store has its product with at least the asked quantity in
\* stock, and it is priced with the store's price; a rejection names a
\* product id the store does not have, or a product of the store whose stock
\* is below a quantity; the rows written are the order's total, its items
\* and the store's stock less the item's quantity; and no step of the
\* validation or persistence touches the cache.
C32_OutcomeFromStoreAlone ==
    [][\A r \in OneOrderReq :
          /\ ItemPasses(r) =>
                LET item == PassedItem(r) IN
                /\ item.product_id \in DOMAIN products
                /\ products[item.product_id].stock_quantity >= item.quantity
                /\ item.unit_price = products[item.product_id].price
                /\ item.total_price = item.unit_price * item.quantity
                /\ ord'[r].totalAmount = ord[r].totalAmount + item.total_price
          /\ ItemRejected(r) =>
                \/ /\ ord'[r].message[1] = "Product with ID"
                   /\ ord'[r].message[2] \notin DOMAIN products
                \/ /\ ord'[r].message[1] = "Insufficient stock for product"
                   /\ \E p \in DOMAIN products, qty \in Quantities :
                         /\ products[p].name = ord'[r].message[2]
                         /\ products[p].stock_quantity < qty
          /\ (ord[r].pc = "update_stock" /\
              ord'[r].pc \in {"insert_item", "del_dashboard"}) =>
                LET item == ord[r].orderItems[ord[r].k] IN
                products'[item.product_id].stock_quantity =
                    products[item.product_id].stock_quantity - item.quantity
          /\ (ord[r].pc = "insert_order" /\ ord'[r].pc = "insert_item") =>
                orders'[Len(orders')].total_amount = ord[r].totalAmount
          /\ (ord[r].pc \in {"validate", "insert_order", "insert_item",
                             "update_stock"} /\ ord'[r] # ord[r]) =>
                cache' = cache]_vars

\* an order was rejected for a product that is out of stock in the store
\* while the product:<id> entry of the cache still shows it in stock
C32_Witness ==
    \E r \in OneOrderReq, p \in ProductIds :
        /\ ord[r].status = 400
        /\ ord[r].message = <<"Insufficient stock for product", products[p].name>>
        /\ products[p].stock_quantity = 0
        /\ RedisHas(cache, Key("product", p), now)
        /\ JSONparse(cache[Key("product", p)].text).v.stock_quantity > 0

(***************************************************************************)
(* One order with a product in several line items.                         *)
(***************************************************************************)
\* the quantity the validated items of request r ask of product p
AskedOf(r, p) ==
    LET Names(item) == item.product_id = p
    IN SumQuantity(SelectSeq(ord[r].orderItems, Names))

\* product p appears in more than one line item of request r
Repeated(r, p) ==
    Cardinality({i \in 1 .. Len(ord[r].orderItems) :
                    ord[r].orderItems[i].product_id = p}) > 1

\* C33: a single order request that names a product in more than one line
\* item is accepted only if the combined quantity of those items is at most
\* the product's stock, and it never leaves the product with negative stock.
C33_RepeatedProductWithinStock ==
    \A r \in OneOrderReq, p \in ProductIds :
        Repeated(r, p) =>
            /\ ord[r].status = 201 => AskedOf(r, p) <= SeedStock[p]
            /\ products[p].stock_quantity >= 0

(***************************************************************************)
(* A store failure while the order is persisted.                           *)
(***************************************************************************)
\* request r inserted its order row and a later store operation of its
\* persistence failed
FailedWhilePersisting(r) ==
    ord[r].pc = "done" /\ ord[r].orderId # 0 /\ ord[r].status # 201

\* C34: an order placement whose store operation fails after the order row
\* was inserted is answered 500, and the store holds no trace of the order:
\* no order row, no order item and no stock decrement.
C34_FailedOrderLeavesNoTrace ==
    \A r \in OneOrderReq :
        FailedWhilePersisting(r) =>
            /\ ord[r].status = 500
            /\ orders = <<>>
            /\ order_items = <<>>
            /\ products = SeedProducts

(***************************************************************************)
(* Logout and the blacklist write.                                         *)
(***************************************************************************)
\* C35: POST /logout answers success only if the blacklist entry of the
\* presented token was recorded: at the step in which the handler answers
\* 'Logout successful', blacklist:<token> is in the cache.
C35_LogoutSuccessMeansRecorded ==
    [][\A a \in AuthReqs :
          (/\ mw[a].pc = "logout_set"
           /\ mw'[a].pc = "done"
           /\ mw'[a].status = 200) =>
              RedisHas(cache', Key("blacklist", mw[a].token), now')]_vars

(***************************************************************************)
(* Password hashes and the cache.                                          *)
(***************************************************************************)
\* the value a cache entry holds is an object with a password_hash field
HoldsPasswordHash(entry) ==
    LET value == JSONparse(entry.text)
    IN /\ "v" \in DOMAIN value
       /\ "password_hash" \in DOMAIN value.v

\* C36: no value written to the cache by a request handler contains a user's
\* password hash.
C36_NoPasswordHashInCache ==
    \A key \in DOMAIN cache : ~HoldsPasswordHash(cache[key])

(***************************************************************************)
(* A rejected run of the middleware writes nothing.                        *)
(***************************************************************************)
\* a step of request a that is not one of its two cache writes
ReadOnlyStep(a) ==
    mw'[a] # mw[a] /\ mw[a].pc \notin {"set_user", "logout_set"}

\* C37: a run of the authentication middleware that ends rejected (401) has
\* written no cache entry and no store row: its log holds no cache.set, and
\* every step it took left the cache and the store as they were.
C37_RejectedRunWritesNothing ==
    /\ [](\A a \in AuthReqs :
             mw[a].status = 401 =>
                 \A i \in 1 .. Len(mw[a].calls) :
                    mw[a].calls[i] \in {"exists", "verify", "get", "query",
                                        "401"})
    /\ [][\A a \in AuthReqs :
             ReadOnlyStep(a) =>
                 /\ cache' = cache
                 /\ users' = users
                 /\ <<products, orders, order_items, user_profiles>>' =
                        <<products, orders, order_items, user_profiles>>]_vars

\* a request was rejected after the middleware had asked the cache and the
\* store for its user
C37_Witness ==
    \E a \in AuthReqs :
        /\ mw[a].status = 401
        /\ mw[a].calls = <<"exists", "verify", "get", "query", "401">>

====
